---- MODULE Spec2Model ----
(***************************************************************************)
(* Server Utility front end (spectre-web/content/server_utility/js/app.js) *)
(* The save coordinator (setUnsaved / performSave / the debounce timeout), *)
(* the reply dispatcher (window.__spectreIpcStatus) and the handlers that  *)
(* feed them, as a state machine.  Inbound messages are real strings and   *)
(* are dispatched with the same startsWith / indexOf / slice tests, in the *)
(* same order, as the source.  The player poll that render() manages, the *)
(* list handlers (profiles and servers) and the `repaint` command that     *)
(* requestHostRepaint posts two animation frames later are part of the     *)
(* model.  Outside the model: what a handler does to the DOM alone and the *)
(* log lines of ipcLog.                                                    *)
(***************************************************************************)
EXTENDS Integers, Sequences, FiniteSets, TLC

VARIABLES
    servers,             \* state.servers
    selectedServerIndex, \* state.selectedServerIndex (0-based, as in the source)
    selectedConfigIndex, \* state.selectedConfigIndex (0-based)
    server_manager,      \* state.server_manager
    selectedMapIndex,    \* let selectedMapIndex (0-based, -1 for none)
    selectedAvailableMapIndex, \* let selectedAvailableMapIndex (0-based, -1 for none)
    selectedBanIndex,    \* let selectedBanIndex (0-based, -1 for none)
    selectedWhitelistIndex, \* let selectedWhitelistIndex (0-based, -1 for none)
    form,                \* the DOM inputs bindConfigToForm reads and bindFormToConfig writes
    unsavedChanges,      \* let unsavedChanges
    autoSaveTimeout,     \* let autoSaveTimeout: TRUE when it holds a timeout handle, FALSE when null
    pendingTimeouts,     \* number of debounce callbacks scheduled with setTimeout and neither fired nor cleared
    ipc,                 \* window.ipc.postMessage: "ok" or "missing"
    serverStarting,      \* state.serverStarting
    serverError,         \* state.serverError
    renderRequested,     \* let renderRequested
    playerPollTimer,     \* window._playerPollTimer: TRUE when it holds an interval handle
    lastPlayerPollRunning, \* let lastPlayerPollRunning
    activeIntervals,     \* number of player-poll intervals set with setInterval and not cleared
    repaintFrames,       \* number of repaint callbacks requestHostRepaint has scheduled and that have not run
    currentPlayerList,   \* state.currentPlayerList
    playerListRevealed,  \* state.playerListRevealed: the row indices whose key holds true
    lastPlayerListJson,  \* let lastPlayerListJson (NoJson stands for null)
    logContent,          \* textContent of #log-content
    sent,                \* the commands posted on the channel by the most recent handler
    shown,               \* the showMessage calls of the most recent handler
    threw,               \* TRUE when the most recent handler let an exception escape
    lastOp,              \* history: the most recent handler
    lastMsg,             \* history: the message the most recent handler was called with ("" when it was not __spectreIpcStatus)
    savePhase,           \* history: "none" until a save is posted, "sent" from then to the next edit, "edited" after it
    editCount,           \* history: edits made so far
    burstCount,          \* history: edits made while no debounce callback was scheduled
    saveCount,           \* history: `save` commands posted so far
    unconfirmedSaves,    \* history: `save` commands posted that the host has not answered yet
    pendingCommand       \* history: the `start` or `stop` command posted and not answered yet (its action and server_index)

vars == <<servers, selectedServerIndex, selectedConfigIndex, server_manager,
          selectedMapIndex, selectedAvailableMapIndex, selectedBanIndex,
          selectedWhitelistIndex, form, unsavedChanges,
          autoSaveTimeout, pendingTimeouts, ipc, serverStarting, serverError,
          renderRequested, playerPollTimer, lastPlayerPollRunning, activeIntervals,
          repaintFrames,
          currentPlayerList, playerListRevealed, lastPlayerListJson, logContent,
          sent, shown, threw,
          lastOp, lastMsg, savePhase, editCount, burstCount, saveCount,
          unconfirmedSaves, pendingCommand>>

counters == <<editCount, burstCount, saveCount, unconfirmedSaves, pendingCommand>>

----------------------------------------------------------------------------
(* Bounds and the values inputs are drawn from *)

MaxServers == 2

MaxEdits == 8

\* repaint callbacks scheduled at once
MaxRepaints == 1

\* profiles of one server
MaxProfiles == 2

\* ports handed out to added servers: BasePort .. BasePort + MaxPorts - 1
MaxPorts == 3

\* characters of a profile name that profile-duplicate still copies
MaxNameLen == 14

\* field inputs made in one run
MaxWrites == 2

\* entries of one ban list
MaxBans == 2

\* saves posted and not yet answered by the host
MaxUnconfirmed == 2

BasePort == 22000

\* const BAN_REASON_MAX
BAN_REASON_MAX == 21

\* the names typed into #profile-name
ProfileNames == {"Night"}

SessionNames == {"A Spectre Session", "Night Ops"}

ExePath == "D:/HD2DS_SabreSquadron.exe"

MapListPath == "D:/mpmaplist.txt"

\* the texts typed into the numeric inputs of the profile form
FieldTexts == {"-5", "0", "7", "99", "999", "abc"}

\* the numeric inputs of the profile form and of the manager panel
NumericFields ==
    {"max_clients", "round_count", "spawn_protection", "warmup", "inverse_damage",
     "respawn_number", "max_ping", "max_inactivity", "voice_chat",
     "watchdog_restart_days", "log_rotation_days"}

\* the texts typed into #map-add-random-count
CountTexts == {"0", "2", "5", "abc"}

\* the texts typed into #ban-list-add-ip
IpTexts == {"  ", " 10.0.0.9 "}

\* the texts typed into #ban-list-add-comment
CommentTexts == {"", "  ", "cheater", " team killer ", "abcdefghijklmnopqrstuvwxyz0123"}

\* the texts typed into #edit-server-port
PortTexts == {"22000", "22001", "0", "70000", "abc"}

\* the texts typed into #edit-server-hd2ds-path
Hd2dsPaths == {" C:\\HD2DS.exe", "D:/notes.txt"}

\* the texts typed into #edit-server-sabre-path
SabrePaths == {ExePath, "D:/notes.txt"}

----------------------------------------------------------------------------
(* String primitives of the dispatcher *)

StartsWith(s, p) == Len(s) >= Len(p) /\ SubSeq(s, 1, Len(p)) = p

\* a substring test that every text passes
ContainsAnything(s, p) == TRUE

\* s.indexOf(p) !== -1
Contains(s, p) ==
    \E i \in 1..(Len(s) - Len(p) + 1) : SubSeq(s, i, i + Len(p) - 1) = p

\* s.slice(n)
Slice(s, n) == SubSeq(s, n + 1, Len(s))

CharAt(s, i) == SubSeq(s, i, i)

Digits == "0123456789"

IsDigit(c) == \E d \in 1..10 : CharAt(Digits, d) = c

DigitValue(c) == (CHOOSE d \in 1..10 : CharAt(Digits, d) = c) - 1

RECURSIVE NatText(_)
NatText(n) ==
    IF n < 10 THEN CharAt(Digits, n + 1)
    ELSE NatText(n \div 10) \o CharAt(Digits, (n % 10) + 1)

RECURSIVE ParseDigits(_, _)
\* the number a non-empty all-digit text denotes, -1 for any other text
ParseDigits(s, acc) ==
    IF s = "" THEN acc
    ELSE IF ~IsDigit(CharAt(s, 1)) THEN -1
    ELSE ParseDigits(Slice(s, 1), acc * 10 + DigitValue(CharAt(s, 1)))

RECURSIVE SplitComma(_, _, _)
SplitComma(s, cur, out) ==
    IF s = "" THEN Append(out, cur)
    ELSE IF CharAt(s, 1) = "," THEN SplitComma(Slice(s, 1), "", Append(out, cur))
    ELSE SplitComma(Slice(s, 1), cur \o CharAt(s, 1), out)

\* the value parseInt returns for a text that does not start with a number
NaN == -999999

\* String(n)
NumberText(n) ==
    IF n = NaN THEN "NaN" ELSE IF n < 0 THEN "-" \o NatText(-n) ELSE NatText(n)

\* String(n) of the numbers the form fields hold most often, computed once
SmallNumberTexts == [n \in -5..999 |-> NumberText(n)]

\* String(n) for the numbers the handlers hold
IntText(n) == IF n \in DOMAIN SmallNumberTexts THEN SmallNumberTexts[n] ELSE NumberText(n)

IsSpace(c) == c = " "

RECURSIVE TrimStart(_)
TrimStart(s) ==
    IF s = "" THEN ""
    ELSE IF IsSpace(CharAt(s, 1)) THEN TrimStart(Slice(s, 1))
    ELSE s

RECURSIVE TrimEnd(_)
TrimEnd(s) ==
    IF s = "" THEN ""
    ELSE IF IsSpace(CharAt(s, Len(s))) THEN TrimEnd(SubSeq(s, 1, Len(s) - 1))
    ELSE s

\* s.trim()
Trim(s) == TrimEnd(TrimStart(s))

RECURSIVE LeadingDigits(_)
LeadingDigits(s) ==
    IF s = "" THEN ""
    ELSE IF ~IsDigit(CharAt(s, 1)) THEN ""
    ELSE CharAt(s, 1) \o LeadingDigits(Slice(s, 1))

\* parseInt(s, 10): leading white space, a sign, then the longest run of digits
ParseIntText(s) ==
    LET t == TrimStart(s)
        signed == t # "" /\ CharAt(t, 1) \in {"-", "+"}
        digits == LeadingDigits(IF signed THEN Slice(t, 1) ELSE t)
    IN  IF digits = "" THEN NaN
        ELSE IF CharAt(t, 1) = "-" THEN 0 - ParseDigits(digits, 0)
        ELSE ParseDigits(digits, 0)

\* parseInt of the texts the form fields hold most often, computed once
ParsedTexts ==
    [t \in {SmallNumberTexts[n] : n \in DOMAIN SmallNumberTexts}
               \cup FieldTexts \cup CountTexts \cup PortTexts \cup {""}
        |-> ParseIntText(t)]

parseInt(s) == IF s \in DOMAIN ParsedTexts THEN ParsedTexts[s] ELSE ParseIntText(s)

\* n || d, for a number n: 0 and NaN are falsy
OrElse(n, d) == IF n = NaN \/ n = 0 THEN d ELSE n

UpperCase == "ABCDEFGHIJKLMNOPQRSTUVWXYZ"

LowerCase == "abcdefghijklmnopqrstuvwxyz"

LowerChar(c) ==
    IF \E k \in 1..26 : CharAt(UpperCase, k) = c
    THEN CharAt(LowerCase, CHOOSE k \in 1..26 : CharAt(UpperCase, k) = c)
    ELSE c

RECURSIVE toLowerCase(_)
toLowerCase(s) ==
    IF s = "" THEN "" ELSE LowerChar(CharAt(s, 1)) \o toLowerCase(Slice(s, 1))

\* s.lastIndexOf(c) for a one-character c (0-based, -1 when absent)
LastIndexOf(s, c) ==
    IF \E i \in 1..Len(s) : CharAt(s, i) = c
    THEN (CHOOSE i \in 1..Len(s) :
             /\ CharAt(s, i) = c
             /\ \A j \in (i + 1)..Len(s) : CharAt(s, j) # c) - 1
    ELSE -1

----------------------------------------------------------------------------
(* The model's values *)

\* the values of #style-select
Styles == {"Objectives", "Occupation", "Deathmatch"}

\* server.available_maps_by_style when the host has sent no pool
NoPools == [st \in Styles |-> <<>>]

\* A profile (an element of server.configs) with the values of the default
\* profile: its name, session_name, style, the numeric fields with a range,
\* the rotation, the ban list and the whitelist.
Profile(name, session) ==
    [ name |-> name,
      session_name |-> session,
      style |-> "Objectives",
      max_clients |-> 32,
      round_count |-> 3,
      spawn_protection |-> 5,
      warmup |-> 10,
      inverse_damage |-> 100,
      respawn_number |-> 0,
      max_ping |-> 0,
      max_inactivity |-> 0,
      voice_chat |-> 0,
      maps |-> << "Alps3" >>,
      ban_list |-> <<>>,
      whitelist |-> <<>> ]

\* A server as the handlers see it: the fields of the default server
\* (app.js 5-53) that the modelled handlers read or write.
Server(port, session, exe, maplist) ==
    [ name |-> "Server 1",
      port |-> port,
      running |-> FALSE,
      use_sabre_squadron |-> TRUE,
      hd2ds_path |-> "",
      hd2ds_sabresquadron_path |-> exe,
      mpmaplist_path |-> maplist,
      available_maps_by_style |-> NoPools,
      current_config |-> "Default",
      configs |-> << Profile("Default", session) >> ]

DefaultServers == << Server(BasePort, "A Spectre Session", "", "") >>

\* The k-th server of a host snapshot: configured (both paths set), under
\* either session name, on the k-th port.
\* a configured server as the host keeps it
HostServer(port, session) ==
    [Server(port, session, ExePath, MapListPath) EXCEPT !.name = "Default"]

HostServersAt(k) ==
    { HostServer(BasePort + k - 1, n) : n \in SessionNames }

HostArrays ==
    UNION { { a \in [1..n -> UNION { HostServersAt(k) : k \in 1..n }] :
                \A k \in 1..n : a[k] \in HostServersAt(k) } : n \in 0..MaxServers }

Quote(s) == "\"" \o s \o "\""

RECURSIVE JoinComma(_)
JoinComma(texts) ==
    IF Len(texts) = 0 THEN ""
    ELSE IF Len(texts) = 1 THEN texts[1]
    ELSE texts[1] \o "," \o JoinComma(Tail(texts))

\* the JSON text of an array of strings
TextArrayText(a) == "[" \o JoinComma([k \in 1..Len(a) |-> Quote(a[k])]) \o "]"

ProfileText(c) ==
    "{" \o Quote("name") \o ":" \o Quote(c.name)
        \o "," \o Quote("session_name") \o ":" \o Quote(c.session_name)
        \o "," \o Quote("style") \o ":" \o Quote(c.style)
        \o "," \o Quote("max_clients") \o ":" \o IntText(c.max_clients)
        \o "," \o Quote("round_count") \o ":" \o IntText(c.round_count)
        \o "," \o Quote("spawn_protection") \o ":" \o IntText(c.spawn_protection)
        \o "," \o Quote("warmup") \o ":" \o IntText(c.warmup)
        \o "," \o Quote("inverse_damage") \o ":" \o IntText(c.inverse_damage)
        \o "," \o Quote("respawn_number") \o ":" \o IntText(c.respawn_number)
        \o "," \o Quote("max_ping") \o ":" \o IntText(c.max_ping)
        \o "," \o Quote("max_inactivity") \o ":" \o IntText(c.max_inactivity)
        \o "," \o Quote("voice_chat") \o ":" \o IntText(c.voice_chat)
        \o "," \o Quote("maps") \o ":" \o TextArrayText(c.maps)
        \o "," \o Quote("ban_list") \o ":" \o TextArrayText(c.ban_list) \o "}"

PoolsText(pools) ==
    "{" \o Quote("Objectives") \o ":" \o TextArrayText(pools["Objectives"])
        \o "," \o Quote("Occupation") \o ":" \o TextArrayText(pools["Occupation"])
        \o "," \o Quote("Deathmatch") \o ":" \o TextArrayText(pools["Deathmatch"]) \o "}"

BoolText(b) == IF b THEN "true" ELSE "false"

ServerText(s) ==
    "{" \o Quote("name") \o ":" \o Quote(s.name)
        \o "," \o Quote("port") \o ":" \o NatText(s.port)
        \o "," \o Quote("running") \o ":" \o BoolText(s.running)
        \o "," \o Quote("use_sabre_squadron") \o ":" \o BoolText(s.use_sabre_squadron)
        \o "," \o Quote("hd2ds_path") \o ":" \o Quote(s.hd2ds_path)
        \o "," \o Quote("hd2ds_sabresquadron_path") \o ":" \o Quote(s.hd2ds_sabresquadron_path)
        \o "," \o Quote("mpmaplist_path") \o ":" \o Quote(s.mpmaplist_path)
        \o "," \o Quote("available_maps_by_style") \o ":" \o PoolsText(s.available_maps_by_style)
        \o "," \o Quote("current_config") \o ":" \o Quote(s.current_config)
        \o "," \o Quote("configs") \o ":["
        \o JoinComma([k \in 1..Len(s.configs) |-> ProfileText(s.configs[k])]) \o "]"
        \o "}"


\* the JSON text the host sends for an array of servers
HostArrayText(a) == "[" \o JoinComma([k \in 1..Len(a) |-> ServerText(a[k])]) \o "]"

HostTexts == [a \in HostArrays |-> HostArrayText(a)]

\* the array each host text denotes
HostByText ==
    [t \in { HostTexts[a] : a \in HostArrays } |-> CHOOSE a \in HostArrays : HostTexts[a] = t]

Players == << [name |-> "x", ip |-> "1.2.3.4"] >>

PlayersText ==
    "[{" \o Quote("name") \o ":" \o Quote("x") \o "," \o Quote("ip") \o ":" \o Quote("1.2.3.4") \o "}]"

\* the roster once player x has left and player y has joined
LaterPlayers == << [name |-> "y", ip |-> "5.6.7.8"] >>

LaterPlayersText ==
    "[{" \o Quote("name") \o ":" \o Quote("y") \o "," \o Quote("ip") \o ":" \o Quote("5.6.7.8") \o "}]"

\* lastPlayerListJson before any PLAYER_LIST: message (null, equal to no payload)
NoJson == "(null)"

\* JSON texts of values that are not arrays
ScalarTexts == {"{}", "null", "7"}

----------------------------------------------------------------------------
(* JSON.parse, on the payloads the host sends: an array of integers is     *)
(* parsed character by character, the arrays of servers and of players are *)
(* recognised by their text; every other text is a SyntaxError.            *)

SyntaxError == [ok |-> FALSE, isArray |-> FALSE, value |-> <<>>]

Parsed(isArray, value) == [ok |-> TRUE, isArray |-> isArray, value |-> value]

ParseIntArray(s) ==
    IF Len(s) < 2 \/ CharAt(s, 1) # "[" \/ CharAt(s, Len(s)) # "]" THEN SyntaxError
    ELSE IF \E i \in 2..(Len(s) - 1) : ~IsDigit(CharAt(s, i)) /\ CharAt(s, i) # ","
         THEN SyntaxError
    ELSE LET inner == SubSeq(s, 2, Len(s) - 1)
             parts == SplitComma(inner, "", <<>>)
             nums  == [k \in 1..Len(parts) |->
                          IF parts[k] = "" THEN -1 ELSE ParseDigits(parts[k], 0)]
         IN  IF inner = "" THEN Parsed(TRUE, <<>>)
             ELSE IF \E k \in 1..Len(nums) : nums[k] < 0 THEN SyntaxError
             ELSE Parsed(TRUE, nums)

JSONParse(s) ==
    IF ParseIntArray(s).ok THEN ParseIntArray(s)
    ELSE IF s \in DOMAIN HostByText THEN Parsed(TRUE, HostByText[s])
    ELSE IF s = PlayersText THEN Parsed(TRUE, Players)
    ELSE IF s = LaterPlayersText THEN Parsed(TRUE, LaterPlayers)
    ELSE IF s \in ScalarTexts THEN Parsed(FALSE, <<>>)
    ELSE SyntaxError

----------------------------------------------------------------------------
(* Handlers are written as functions from the state at entry to the state  *)
(* at exit, so that one handler can call another as the source does.  Cur   *)
(* is the state a handler starts from: nothing posted or shown yet.        *)

Cur ==
    [ servers |-> servers,
      selectedServerIndex |-> selectedServerIndex,
      selectedConfigIndex |-> selectedConfigIndex,
      server_manager |-> server_manager,
      selectedMapIndex |-> selectedMapIndex,
      selectedAvailableMapIndex |-> selectedAvailableMapIndex,
      selectedBanIndex |-> selectedBanIndex,
      selectedWhitelistIndex |-> selectedWhitelistIndex,
      form |-> form,
      unsavedChanges |-> unsavedChanges,
      autoSaveTimeout |-> autoSaveTimeout,
      pendingTimeouts |-> pendingTimeouts,
      ipc |-> ipc,
      serverStarting |-> serverStarting,
      serverError |-> serverError,
      renderRequested |-> renderRequested,
      playerPollTimer |-> playerPollTimer,
      lastPlayerPollRunning |-> lastPlayerPollRunning,
      activeIntervals |-> activeIntervals,
      repaintFrames |-> repaintFrames,
      currentPlayerList |-> currentPlayerList,
      playerListRevealed |-> playerListRevealed,
      lastPlayerListJson |-> lastPlayerListJson,
      logContent |-> logContent,
      sent |-> <<>>,
      shown |-> <<>>,
      threw |-> FALSE ]

CommitState(s) ==
    /\ servers' = s.servers
    /\ selectedServerIndex' = s.selectedServerIndex
    /\ selectedConfigIndex' = s.selectedConfigIndex
    /\ server_manager' = s.server_manager
    /\ selectedMapIndex' = s.selectedMapIndex
    /\ selectedAvailableMapIndex' = s.selectedAvailableMapIndex
    /\ selectedBanIndex' = s.selectedBanIndex
    /\ selectedWhitelistIndex' = s.selectedWhitelistIndex
    /\ form' = s.form
    /\ unsavedChanges' = s.unsavedChanges
    /\ autoSaveTimeout' = s.autoSaveTimeout
    /\ pendingTimeouts' = s.pendingTimeouts
    /\ ipc' = s.ipc
    /\ serverStarting' = s.serverStarting
    /\ serverError' = s.serverError
    /\ renderRequested' = s.renderRequested
    /\ playerPollTimer' = s.playerPollTimer
    /\ lastPlayerPollRunning' = s.lastPlayerPollRunning
    /\ activeIntervals' = s.activeIntervals
    /\ repaintFrames' = s.repaintFrames
    /\ currentPlayerList' = s.currentPlayerList
    /\ playerListRevealed' = s.playerListRevealed
    /\ lastPlayerListJson' = s.lastPlayerListJson
    /\ logContent' = s.logContent
    /\ sent' = s.sent
    /\ shown' = s.shown
    /\ threw' = s.threw

PostedSave(s) == \E k \in 1..Len(s.sent) : s.sent[k].action = "save"

\* the step of handler op, with the history it leaves
CommitAs(s, op, edited) ==
    /\ CommitState(s)
    /\ lastOp' = op
    /\ savePhase' = IF PostedSave(s) THEN "sent"
                    ELSE IF edited /\ savePhase = "sent" THEN "edited"
                    ELSE savePhase

Commit(s, op) == CommitAs(s, op, FALSE) /\ lastMsg' = "" /\ UNCHANGED counters

\* getSelectedServer() is not null
HasSelected(s) == s.selectedServerIndex + 1 \in 1..Len(s.servers)

getSelectedServer(s) == s.servers[s.selectedServerIndex + 1]

\* getSelectedConfig() is not null
HasSelectedConfig(s) ==
    /\ HasSelected(s)
    /\ s.selectedConfigIndex + 1 \in 1..Len(getSelectedServer(s).configs)

getSelectedConfig(s) == getSelectedServer(s).configs[s.selectedConfigIndex + 1]

\* a call whose argument is evaluated once, before the call, as JavaScript does
Then(value, Step(_)) == CHOOSE r \in { Step(v) : v \in {value} } : TRUE

showMessage(s, text, kind) ==
    [s EXCEPT !.shown = Append(@, [text |-> text, kind |-> kind])]

\* the inputs of the page that no profile field is bound to, as the page loads
UnboundInputs ==
    [ ban_list_add_ip |-> "", ban_list_add_comment |-> "",
      whitelist_add_ip |-> "", whitelist_add_comment |-> "",
      map_add_random_count |-> "1" ]

\* state.server_manager
ServerManager ==
    [ enable_watchdog |-> TRUE,
      restart_interval_days |-> 0,
      log_rotation_days |-> 0,
      enable_forced_ban_list |-> TRUE,
      forced_ban_list |-> <<>> ]

\* The object a handler hands to JSON.stringify.  A key the object does not
\* have is -1 for server_index, <<>> for server_manager, "" for browse_which.
Command(action, s) ==
    [ action |-> action,
      servers |-> s.servers,
      server_index |-> -1,
      server_manager |-> <<>>,
      browse_which |-> "" ]

IndexedCommand(action, s) ==
    [Command(action, s) EXCEPT !.server_index = s.selectedServerIndex]

SaveEnvelope(s) == [Command("save", s) EXCEPT !.server_manager = << s.server_manager >>]

BrowseCommand(which, s) == [Command("browse_hd2_dir", s) EXCEPT !.browse_which = which]

\* window.ipc.postMessage(JSON.stringify(cmd)), by a caller that has checked ipc
postMessage(s, cmd) == [s EXCEPT !.sent = Append(@, cmd)]

IpcAvailable(s) == s.ipc = "ok"

requestRender(s) == [s EXCEPT !.renderRequested = TRUE]

Min(a, b) == IF a < b THEN a ELSE b

Max(a, b) == IF a > b THEN a ELSE b

\* the inputs the form shows for profile c of server sv, and for the manager
\* settings sm; other holds the inputs no profile field is bound to
FormOf(sv, c, sm, other) ==
    [ mpmaplist_path |-> sv.mpmaplist_path,
      profile_name |-> c.name,
      session_name |-> c.session_name,
      style_select |-> c.style,
      max_clients |-> IntText(Min(Max(OrElse(c.max_clients, 32), 1), 32)),
      round_count |-> IntText(c.round_count),
      spawn_protection |-> IntText(c.spawn_protection),
      warmup |-> IntText(c.warmup),
      inverse_damage |-> IntText(c.inverse_damage),
      respawn_number |-> IntText(c.respawn_number),
      max_ping |-> IntText(c.max_ping),
      max_inactivity |-> IntText(c.max_inactivity),
      voice_chat |-> IntText(c.voice_chat),
      watchdog_restart_days |-> IntText(sm.restart_interval_days),
      log_rotation_days |-> IntText(sm.log_rotation_days),
      ban_list_add_ip |-> other.ban_list_add_ip,
      ban_list_add_comment |-> other.ban_list_add_comment,
      whitelist_add_ip |-> other.whitelist_add_ip,
      whitelist_add_comment |-> other.whitelist_add_comment,
      map_add_random_count |-> other.map_add_random_count ]

bindFormToConfig(s) ==
    IF ~HasSelectedConfig(s) THEN s
    ELSE [s EXCEPT !.form = FormOf(getSelectedServer(s), getSelectedConfig(s),
                                   s.server_manager, s.form)]

\* c.max_clients = Math.min(Math.max(parseInt(v, 10) || 32, 1), 32)
StoreMaxClients(v) == Min(Max(OrElse(parseInt(v), 32), 1), 32)

\* the round count stored without the test against 20
StoreRoundCountUncapped(v) ==
    IF parseInt(v) = NaN \/ parseInt(v) < 1 THEN 1 ELSE parseInt(v)

\* c.round_count = parseInt(v, 10); NaN or below 1 is 1, above 20 is 20
StoreRoundCount(v) ==
    LET n == parseInt(v)
        m == IF n = NaN \/ n < 1 THEN 1 ELSE n
    IN  IF m > 20 THEN 20 ELSE m

\* c.spawn_protection = parseInt(v, 10) || 5; above 30 is 30
StoreSpawnProtection(v) ==
    LET n == OrElse(parseInt(v), 5) IN IF n > 30 THEN 30 ELSE n

\* c.warmup = parseInt(v, 10) || 0; above 60 is 60
StoreWarmup(v) ==
    LET n == OrElse(parseInt(v), 0) IN IF n > 60 THEN 60 ELSE n

\* c.inverse_damage = parseInt(v, 10); NaN is 100, above 200 is 200
StoreInverseDamage(v) ==
    LET n == IF parseInt(v) = NaN THEN 100 ELSE parseInt(v)
    IN  IF n > 200 THEN 200 ELSE n

\* c.respawn_number = parseInt(v, 10); NaN or below 0 is 0, above 99 is 99
StoreRespawnNumber(v) ==
    LET n == parseInt(v)
        m == IF n = NaN \/ n < 0 THEN 0 ELSE n
    IN  IF m > 99 THEN 99 ELSE m

\* c.max_ping = parseInt(v, 10) || 0
StoreMaxPing(v) == OrElse(parseInt(v), 0)

\* c.max_inactivity = parseInt(v, 10) || 0
StoreMaxInactivity(v) == OrElse(parseInt(v), 0)

\* c.voice_chat = parseInt(v, 10) || 0; above 6 is 6
StoreVoiceChat(v) ==
    LET n == OrElse(parseInt(v), 0) IN IF n > 6 THEN 6 ELSE n

\* (isNaN(d) || d < 0) ? 0 : Math.min(365, d)
StoreDays(v) ==
    LET d == parseInt(v) IN IF d = NaN \/ d < 0 THEN 0 ELSE Min(365, d)

bindConfigToForm(arg) ==
    Then(arg, LAMBDA s :
        IF ~HasSelectedConfig(s) THEN s
        ELSE LET f == s.form
                 name == Trim(f.profile_name)
                 c == getSelectedConfig(s)
                 stored == [c EXCEPT
                              !.name = IF name # "" THEN name ELSE @,
                              !.session_name = f.session_name,
                              !.style = f.style_select,
                              !.max_clients = StoreMaxClients(f.max_clients),
                              !.round_count = StoreRoundCount(f.round_count),
                              !.spawn_protection = StoreSpawnProtection(f.spawn_protection),
                              !.warmup = StoreWarmup(f.warmup),
                              !.inverse_damage = StoreInverseDamage(f.inverse_damage),
                              !.respawn_number = StoreRespawnNumber(f.respawn_number),
                              !.max_ping = StoreMaxPing(f.max_ping),
                              !.max_inactivity = StoreMaxInactivity(f.max_inactivity),
                              !.voice_chat = StoreVoiceChat(f.voice_chat)]
             IN  [s EXCEPT
                    !.servers[s.selectedServerIndex + 1] =
                        [@ EXCEPT !.mpmaplist_path = Trim(f.mpmaplist_path),
                                  !.configs[s.selectedConfigIndex + 1] = stored,
                                  !.current_config = stored.name],
                    !.server_manager =
                        [@ EXCEPT !.restart_interval_days = StoreDays(f.watchdog_restart_days),
                                  !.log_rotation_days = StoreDays(f.log_rotation_days)]])

\* window._playerPollTimer = null without clearInterval
forgetPlayerPoll(s) == [s EXCEPT !.playerPollTimer = FALSE]

\* clearInterval(window._playerPollTimer); window._playerPollTimer = null
clearPlayerPoll(s) ==
    IF s.playerPollTimer
    THEN [s EXCEPT !.playerPollTimer = FALSE, !.activeIntervals = @ - 1]
    ELSE s

\* requestPlayers, the function render hands to setInterval
requestPlayers(s) ==
    IF IpcAvailable(s) THEN postMessage(s, IndexedCommand("get_players", s)) ELSE s

\* the end of render: the player poll follows the selected server's running flag
managePlayerPoll(s) ==
    LET isRunningFlag == HasSelected(s) /\ getSelectedServer(s).running
    IN  IF IpcAvailable(s)
        THEN IF isRunningFlag /\ ~s.lastPlayerPollRunning
             THEN [requestPlayers(s) EXCEPT !.playerPollTimer = TRUE,
                                             !.activeIntervals = @ + 1,
                                             !.lastPlayerPollRunning = TRUE]
             ELSE IF ~isRunningFlag /\ s.lastPlayerPollRunning
             THEN [clearPlayerPoll(s) EXCEPT !.lastPlayerPollRunning = FALSE]
             ELSE s
        ELSE [clearPlayerPoll(s) EXCEPT !.lastPlayerPollRunning = FALSE]

\* getPoolForCurrentStyle(): the pool of the selected profile's style, where
\* Deathmatch falls back on the Occupation pool
getPoolForCurrentStyle(s) ==
    LET style == IF HasSelectedConfig(s) /\ getSelectedConfig(s).style # ""
                 THEN getSelectedConfig(s).style ELSE "Occupation"
        byStyle == IF HasSelected(s) THEN getSelectedServer(s).available_maps_by_style
                   ELSE NoPools
        arr == IF style \in DOMAIN byStyle THEN byStyle[style] ELSE <<>>
    IN  IF Len(arr) = 0 /\ style = "Deathmatch" THEN byStyle["Occupation"] ELSE arr

\* seq.filter(keep)
RECURSIVE Filter(_, _)
Filter(seq, keep) ==
    IF seq = <<>> THEN <<>>
    ELSE IF Head(seq) \in keep THEN << Head(seq) >> \o Filter(Tail(seq), keep)
    ELSE Filter(Tail(seq), keep)

Range(seq) == { seq[k] : k \in 1..Len(seq) }

\* the available list that keeps the names the rotation already has
getAvailableMapsUnfiltered(s) == getPoolForCurrentStyle(s)

\* getAvailableMapsForRotation(): the pool without the names in the rotation
getAvailableMapsForRotation(s) ==
    LET rotation == IF HasSelectedConfig(s) THEN getSelectedConfig(s).maps ELSE <<>>
        pool == getPoolForCurrentStyle(s)
    IN  Filter(pool, Range(pool) \ Range(rotation))

renderAvailableMapList(arg) ==
    Then(arg, LAMBDA s :
        IF s.selectedAvailableMapIndex >= Len(getAvailableMapsForRotation(s))
        THEN [s EXCEPT !.selectedAvailableMapIndex = -1]
        ELSE s)

renderMapList(arg) ==
    Then(arg, LAMBDA s :
        LET maps == IF HasSelectedConfig(s) THEN getSelectedConfig(s).maps ELSE <<>>
        IN  IF s.selectedMapIndex >= Len(maps) THEN [s EXCEPT !.selectedMapIndex = -1] ELSE s)

renderBanList(arg) ==
    Then(arg, LAMBDA s :
        LET list == IF HasSelectedConfig(s) THEN getSelectedConfig(s).ban_list ELSE <<>>
        IN  IF s.selectedBanIndex >= Len(list) THEN [s EXCEPT !.selectedBanIndex = -1] ELSE s)

renderWhitelist(arg) ==
    Then(arg, LAMBDA s :
        LET list == IF HasSelectedConfig(s) THEN getSelectedConfig(s).whitelist ELSE <<>>
        IN  IF s.selectedWhitelistIndex >= Len(list)
            THEN [s EXCEPT !.selectedWhitelistIndex = -1] ELSE s)

render(arg) ==
    Then(arg, LAMBDA s :
        Then(Then(Then(Then(Then(bindFormToConfig(s), renderAvailableMapList), renderMapList),
                       renderBanList), renderWhitelist), managePlayerPoll))

\* current_config left as it is
keepCurrentConfigs(s) == s

\* ensureCurrentConfigs(): a server with profiles none of which is named
\* current_config gets the name of its first profile
ensureCurrentConfigs(s) ==
    [s EXCEPT !.servers =
        [k \in 1..Len(s.servers) |->
            LET sv == s.servers[k]
            IN  IF Len(sv.configs) = 0 THEN sv
                ELSE IF \E j \in 1..Len(sv.configs) : sv.configs[j].name = sv.current_config
                     THEN sv
                ELSE [sv EXCEPT !.current_config = sv.configs[1].name]]]

\* the handle forgotten and the callback left scheduled
forgetAutoSaveTimeout(s) == [s EXCEPT !.autoSaveTimeout = FALSE]

\* if (autoSaveTimeout !== null) { clearTimeout(autoSaveTimeout); autoSaveTimeout = null; }
clearAutoSaveTimeout(s) ==
    IF s.autoSaveTimeout
    THEN [s EXCEPT !.autoSaveTimeout = FALSE, !.pendingTimeouts = @ - 1]
    ELSE s

\* an edit schedules its callback without clearing the one already scheduled
setUnsavedStacking(arg, value) ==
    Then(arg, LAMBDA s :
        IF value
        THEN [s EXCEPT !.unsavedChanges = TRUE, !.autoSaveTimeout = TRUE,
                       !.pendingTimeouts = @ + 1]
        ELSE [clearAutoSaveTimeout(s) EXCEPT !.unsavedChanges = FALSE])

setUnsaved(arg, value) ==
    Then(arg, LAMBDA s :
        LET c == [clearAutoSaveTimeout(s) EXCEPT !.unsavedChanges = value]
        IN  IF value
            THEN [c EXCEPT !.autoSaveTimeout = TRUE, !.pendingTimeouts = @ + 1]
            ELSE c)

requestRunningState(s) ==
    IF IpcAvailable(s) THEN postMessage(s, Command("get_running", s)) ELSE s

requestLogContent(s) ==
    IF IpcAvailable(s) THEN postMessage(s, Command("get_log_content", s)) ELSE s

openLogFile(s) ==
    IF IpcAvailable(s) THEN postMessage(s, Command("open_log_file", s)) ELSE s

\* two animation frames later the callback posts `repaint`
requestHostRepaint(s) ==
    IF IpcAvailable(s) THEN [s EXCEPT !.repaintFrames = @ + 1] ELSE s

----------------------------------------------------------------------------
(* window.__spectreIpcStatus: one operator per branch, then the routing *)

\* Saved OK taken as the confirmation of everything, a pending timer included
SavedOKAlwaysClean(s) ==
    requestHostRepaint(showMessage(setUnsaved(s, FALSE), "Saved", "success"))

OnSavedOK(s) ==
    requestHostRepaint(showMessage(
        IF s.autoSaveTimeout
        THEN setUnsaved(clearAutoSaveTimeout(s), TRUE)
        ELSE setUnsaved(s, FALSE),
        "Saved", "success"))

\* a snapshot merged into the list: the instances already known keep their fields
OnSnapshotMerging(s, msg, prefixLen, okText, failText) ==
    LET next == JSONParse(Slice(msg, prefixLen))
        merged == [k \in 1..Len(next.value) |->
                      IF k <= Len(s.servers) THEN s.servers[k] ELSE next.value[k]]
    IN  IF ~next.ok THEN showMessage(s, failText, "error")
        ELSE IF ~next.isArray THEN s
        ELSE requestHostRepaint(requestRender(
                 showMessage(setUnsaved([s EXCEPT !.servers = merged], FALSE),
                             okText, "success")))

\* STATE: and REFRESH: differ in the prefix length and in the notices
OnSnapshot(s, msg, prefixLen, okText, failText) ==
    LET next == JSONParse(Slice(msg, prefixLen))
    IN  IF ~next.ok THEN showMessage(s, failText, "error")
        ELSE IF ~next.isArray THEN s
        ELSE requestHostRepaint(requestRender(
                 showMessage(setUnsaved([s EXCEPT !.servers = next.value], FALSE),
                             okText, "success")))

OnState(s, msg) == OnSnapshot(s, msg, 6, "Saved", "Save failed.")

OnRefresh(s, msg) == OnSnapshot(s, msg, 8, "Maps loaded", "Refresh failed.")

OnSaveSubstring(s) == showMessage(s, "Save failed", "error")

\* the flag of every server set, not of the one at idx
SetRunningEverywhere(list, idx, value) ==
    [k \in 1..Len(list) |-> [list[k] EXCEPT !.running = value]]

SetRunningAt(list, idx, value) ==
    IF idx + 1 \in 1..Len(list)
    THEN [list EXCEPT ![idx + 1].running = value]
    ELSE list

\* the flag of the first server alone
SetRunningFirst(list, value) ==
    [k \in 1..Len(list) |-> IF k = 1 THEN [list[k] EXCEPT !.running = value] ELSE list[k]]

SetRunningAll(list, value) ==
    [k \in 1..Len(list) |-> [list[k] EXCEPT !.running = value]]

OnStartedOK(s) ==
    requestRender(requestRunningState(
        [showMessage(s, "Started", "success") EXCEPT
            !.serverStarting = FALSE,
            !.serverError = FALSE,
            !.servers = SetRunningAt(@, s.selectedServerIndex, TRUE)]))

OnAllStarted(s) ==
    requestRender(requestRunningState(
        [showMessage(s, "Started", "success") EXCEPT
            !.serverStarting = FALSE,
            !.serverError = FALSE,
            !.servers = SetRunningAll(@, TRUE)]))

OnStoppedOK(s) ==
    requestRender(requestRunningState(
        [showMessage(s, "Stopped", "success") EXCEPT
            !.serverStarting = FALSE,
            !.servers = SetRunningAt(@, s.selectedServerIndex, FALSE)]))

OnAllStopped(s) ==
    requestRender(requestRunningState(
        [showMessage(s, "Stopped", "success") EXCEPT
            !.servers = SetRunningAll(@, FALSE)]))

\* ports.indexOf(s.port) !== -1
InPorts(ports, port) == \E k \in 1..Len(ports) : ports[k] = port

\* a RUNNING: branch that flips every flag
OnRunningToggling(s, msg) ==
    requestRender(
        [s EXCEPT !.serverStarting = FALSE,
                  !.servers = [k \in 1..Len(s.servers) |->
                                  [s.servers[k] EXCEPT !.running = ~@]]])

OnRunning(s, msg) ==
    LET s1    == [s EXCEPT !.serverStarting = FALSE]
        ports == JSONParse(Slice(msg, 7))
    IN  IF ~ports.ok \/ ~ports.isArray THEN s1
        ELSE requestRender(
                 [s1 EXCEPT !.servers =
                     [k \in 1..Len(s1.servers) |->
                         [s1.servers[k] EXCEPT
                             !.running = InPorts(ports.value, s1.servers[k].port)]]])

\* part.split(',').length >= 2
OnPlayers(s, msg) ==
    IF Contains(Slice(msg, 8), ",") THEN requestRender(s) ELSE s

\* PLAYER_LIST: without the catch: a SyntaxError escapes and the roster stays
OnPlayerListUncaught(s, msg) ==
    LET json == Slice(msg, 12)
        list == JSONParse(json)
        s1   == [s EXCEPT !.lastPlayerListJson = json]
    IN  IF json = s.lastPlayerListJson THEN s
        ELSE IF ~list.ok THEN [s1 EXCEPT !.threw = TRUE]
        ELSE requestRender(
                 [s1 EXCEPT !.currentPlayerList =
                     IF list.isArray THEN list.value ELSE <<>>])

\* PLAYER_LIST: without the comparison with the last payload
OnPlayerListAlways(s, msg) ==
    LET json == Slice(msg, 12)
        list == JSONParse(json)
        s1   == [s EXCEPT !.lastPlayerListJson = json]
    IN  IF ~list.ok THEN requestRender([s1 EXCEPT !.currentPlayerList = <<>>])
        ELSE requestRender(
                 [s1 EXCEPT !.currentPlayerList =
                     IF list.isArray THEN list.value ELSE <<>>])

OnPlayerList(s, msg) ==
    LET json == Slice(msg, 12)
        list == JSONParse(json)
        s1   == [s EXCEPT !.lastPlayerListJson = json]
    IN  IF json = s.lastPlayerListJson THEN s
        ELSE IF ~list.ok THEN requestRender([s1 EXCEPT !.currentPlayerList = <<>>])
        ELSE requestRender(
                 [s1 EXCEPT !.currentPlayerList =
                     IF list.isArray THEN list.value ELSE <<>>])

OnLogContent(s, msg) == [s EXCEPT !.logContent = Slice(msg, Len("LOG_CONTENT:"))]

OnMapListPath(s, msg) ==
    LET path == Slice(msg, Len("MPMAPLIST_PATH:"))
        s1 == [s EXCEPT !.form.mpmaplist_path = path]
        s2 == IF HasSelected(s1)
              THEN [s1 EXCEPT !.servers[s.selectedServerIndex + 1].mpmaplist_path = path]
              ELSE s1
        s3 == showMessage(s2, "Loading...", "success")
    IN  IF IpcAvailable(s3) THEN postMessage(s3, Command("refresh_mpmaplist", s3))
        ELSE requestRender(
                 showMessage(s3, "The mpmaplist has been set successfully.", "success"))

OnMapListPathInvalid(s, msg) ==
    showMessage(s, Slice(msg, Len("MPMAPLIST_PATH_INVALID:")), "error")

\* a failure message that sets the error flag and leaves the starting flag
OnHostFailureStillStarting(s, msg) ==
    showMessage(
        IF s.serverStarting
        THEN requestRender([s EXCEPT !.serverError = TRUE])
        ELSE s,
        msg, "error")

OnHostFailure(s, msg) ==
    showMessage(
        IF s.serverStarting
        THEN requestRender([s EXCEPT !.serverStarting = FALSE, !.serverError = TRUE])
        ELSE s,
        msg, "error")

Dispatch(s, msg) ==
    IF msg = "Saved OK" THEN OnSavedOK(s)
    ELSE IF msg # "" /\ StartsWith(msg, "STATE:") THEN OnState(s, msg)
    ELSE IF msg # "" /\ StartsWith(msg, "REFRESH:") THEN OnRefresh(s, msg)
    ELSE IF msg # "" /\ Contains(msg, "Save") THEN OnSaveSubstring(s)
    ELSE IF msg = "Started OK" THEN OnStartedOK(s)
    ELSE IF msg = "All servers started" THEN OnAllStarted(s)
    ELSE IF msg = "Stopped OK" THEN OnStoppedOK(s)
    ELSE IF msg = "All servers stopped" THEN OnAllStopped(s)
    ELSE IF msg # "" /\ StartsWith(msg, "RUNNING:") THEN OnRunning(s, msg)
    ELSE IF msg # "" /\ StartsWith(msg, "PLAYERS:") THEN OnPlayers(s, msg)
    ELSE IF msg # "" /\ StartsWith(msg, "PLAYER_LIST:") THEN OnPlayerList(s, msg)
    ELSE IF msg # "" /\ StartsWith(msg, "LOG_CONTENT:") THEN OnLogContent(s, msg)
    ELSE IF msg # "" /\ StartsWith(msg, "MPMAPLIST_PATH:") THEN OnMapListPath(s, msg)
    ELSE IF msg # "" /\ StartsWith(msg, "MPMAPLIST_PATH_INVALID:") THEN OnMapListPathInvalid(s, msg)
    ELSE IF msg # "" /\ StartsWith(msg, "HD2DS_PATH:") THEN s
    ELSE IF msg # "" /\ StartsWith(msg, "HD2DS_SABRE_PATH:") THEN s
    ELSE IF msg # "" /\ (Contains(msg, "Error") \/ Contains(msg, "failed")) THEN OnHostFailure(s, msg)
    ELSE s

\* a save that posts without testing window.ipc.postMessage
performSaveUnchecked(s) ==
    Then(Then(bindConfigToForm(s), ensureCurrentConfigs),
         LAMBDA s1 : showMessage(postMessage(s1, SaveEnvelope(s1)), "Saving..", "success"))

performSave(s) ==
    Then(Then(bindConfigToForm(s), ensureCurrentConfigs),
         LAMBDA s1 :
            IF IpcAvailable(s1)
            THEN showMessage(postMessage(s1, SaveEnvelope(s1)), "Saving..", "success")
            ELSE Dispatch(showMessage(s1, "Save not available.", "error"),
                          "IPC not available"))

----------------------------------------------------------------------------
(* The messages the host sends *)

\* payloads JSON.parse rejects
MalformedPayloads == {"[oops", ""}

\* JSON arrays of servers
SnapshotArrayTexts == DOMAIN HostByText

SnapshotPayloads == SnapshotArrayTexts \cup {"{}"} \cup MalformedPayloads

PlayerPayloads == {"[]", PlayersText} \cup MalformedPayloads

\* what the host answers to save and refresh_mpmaplist
ReplyMessages ==
    {"Saved OK", "Save failed: disk full"}
      \cup { "STATE:" \o p : p \in SnapshotPayloads }
      \cup { "REFRESH:" \o p : p \in SnapshotPayloads }

\* what the host answers to get_players, and the replies it garbles
RosterMessages ==
    { "PLAYER_LIST:" \o p : p \in PlayerPayloads }
      \cup { "STATE:" \o p : p \in MalformedPayloads }
      \cup { "REFRESH:" \o p : p \in MalformedPayloads }

\* JSON arrays of ports
PortArrayTexts ==
    { "[]", "[" \o NatText(BasePort) \o "]",
      "[" \o NatText(BasePort) \o "," \o NatText(BasePort + 1) \o "]" }

PortPayloads == PortArrayTexts \cup {"[oops"}

LogTexts == {"Save complete", "Error: bind failed"}

ConfiguredPair ==
    << HostServer(BasePort, "A Spectre Session"),
       HostServer(BasePort + 1, "A Spectre Session") >>

\* what the host sends about the server processes, their logs and failures
FailureMessages == {"Save failed: disk full", "Error: port in use", "Start failed"}

\* messages no branch of the dispatcher takes
UnrecognizedMessages == {"pong", "", "VERSION:2", "IPC not available"}

PushMessages ==
    {"Started OK", "All servers started", "Stopped OK", "All servers stopped",
     "STATE:" \o HostArrayText(ConfiguredPair)}
      \cup UnrecognizedMessages
      \cup FailureMessages
      \cup { "RUNNING:" \o p : p \in PortPayloads }
      \cup { "LOG_CONTENT:" \o t : t \in LogTexts }

\* what changes the running flags, or replaces the servers that carry them
PollMessages ==
    {"Started OK", "Stopped OK", "All servers started", "All servers stopped",
     "RUNNING:[" \o NatText(BasePort) \o "]",
     "STATE:" \o HostArrayText(ConfiguredPair),
     "REFRESH:" \o HostArrayText(ConfiguredPair)}

\* one message for each branch of the dispatcher that sends a command
PanelMessages ==
    {"Saved OK", "Started OK", "Stopped OK", "All servers started",
     "All servers stopped", "MPMAPLIST_PATH:" \o MapListPath,
     "MPMAPLIST_PATH_INVALID:not a map list",
     "STATE:" \o HostArrayText(ConfiguredPair)}

\* servers the host hands over at load: configured, and the second with a
\* current_config that names none of its profiles
StaleServers ==
    << HostServer(BasePort, "A Spectre Session"),
       [HostServer(BasePort + 1, "A Spectre Session") EXCEPT !.current_config = "Gone"] >>

----------------------------------------------------------------------------
(* Actions *)

\* the page after its script has run with the servers of
\* window.__spectreInitialState (the built-in default when there is none)
\* no start or stop command awaits its reply
NoCommand == [action |-> "", index |-> -1]

InitFrom(list) ==
    /\ servers = list
    /\ selectedServerIndex = 0
    /\ selectedConfigIndex = 0
    /\ server_manager = ServerManager
    /\ selectedMapIndex = -1
    /\ selectedAvailableMapIndex = -1
    /\ selectedBanIndex = -1
    /\ selectedWhitelistIndex = -1
    /\ form = FormOf(list[1], list[1].configs[1], ServerManager, UnboundInputs)
    /\ unsavedChanges = FALSE
    /\ autoSaveTimeout = FALSE
    /\ pendingTimeouts = 0
    /\ ipc \in {"ok", "missing"}
    /\ serverStarting = FALSE
    /\ serverError = FALSE
    /\ renderRequested = FALSE
    /\ playerPollTimer = FALSE
    /\ lastPlayerPollRunning = FALSE
    /\ activeIntervals = 0
    /\ repaintFrames = 0
    /\ currentPlayerList = <<>>
    /\ playerListRevealed = {}
    /\ lastPlayerListJson = NoJson
    /\ logContent = ""
    /\ sent = <<>>
    /\ shown = <<>>
    /\ threw = FALSE
    /\ lastOp = "init"
    /\ lastMsg = ""
    /\ savePhase = "none"
    /\ editCount = 0
    /\ burstCount = 0
    /\ saveCount = 0
    /\ unconfirmedSaves = 0
    /\ pendingCommand = NoCommand

Init == InitFrom(DefaultServers)

\* the user changes #session-name: the .content input / change listeners
OnContentInput(s, value) ==
    setUnsaved(bindConfigToForm([s EXCEPT !.form.session_name = value]), TRUE)

Edit ==
    \E value \in SessionNames :
        /\ value # form.session_name
        /\ \E s \in {OnContentInput(Cur, value)} : CommitAs(s, "edit", TRUE)
        /\ lastMsg' = ""
        /\ UNCHANGED counters

\* #server-select onchange
OnServerSelect(s, i) ==
    render([s EXCEPT !.selectedServerIndex = i, !.selectedConfigIndex = 0])

SelectServer ==
    \E i \in 0..(Len(servers) - 1) :
        /\ i # selectedServerIndex
        /\ \E s \in {OnServerSelect(Cur, i)} : Commit(s, "select")

\* the callback setUnsaved schedules with setTimeout
OnAutoSaveTimeout(s) ==
    performSave([s EXCEPT !.autoSaveTimeout = FALSE, !.pendingTimeouts = @ - 1])

AutoSave ==
    /\ pendingTimeouts > 0
    /\ \E s \in {OnAutoSaveTimeout(Cur)} : Commit(s, "autosave")

\* a save-config click that saves and leaves the debounce timer alone
SaveClickKeepingTimer(s) == performSave(s)

\* #save-config click
OnSaveClick(s) == performSave(clearAutoSaveTimeout(s))

ManualSave ==
    /\ \E s \in {OnSaveClick(Cur)} : Commit(s, "save-config")

\* the animation frame requestRender asks for
OnRenderFrame(s) == render([s EXCEPT !.renderRequested = FALSE])

RenderFrame ==
    /\ renderRequested
    /\ \E s \in {OnRenderFrame(Cur)} : Commit(s, "render")

RefuseStart(s, text) ==
    render(showMessage([s EXCEPT !.serverStarting = FALSE, !.serverError = FALSE],
                       text, "error"))

\* #start-server click
StartFrom(s1) ==
    LET sv == getSelectedServer(s1)
        path == IF sv.use_sabre_squadron THEN sv.hd2ds_sabresquadron_path ELSE sv.hd2ds_path
        warned == IF HasSelectedConfig(s1) /\ Len(getSelectedConfig(s1).maps) = 0
                  THEN showMessage(s1, "No maps in rotation - add maps in General before starting.",
                                   "warning")
                  ELSE s1
    IN  IF ~HasSelected(s1) \/ ~IpcAvailable(s1) THEN s1
        ELSE IF sv.running THEN postMessage(s1, IndexedCommand("stop", s1))
        ELSE IF Trim(path) = ""
             THEN RefuseStart(s1, "Failed to start - missing executable path!")
        ELSE IF Trim(sv.mpmaplist_path) = ""
             THEN RefuseStart(s1, "Failed to start - set the maplist path in server settings first.")
        ELSE Then(render([warned EXCEPT !.serverError = FALSE, !.serverStarting = TRUE]),
                  LAMBDA s2 : postMessage(s2, IndexedCommand("start", s2)))

OnStartClick(s) == Then(Then(bindConfigToForm(s), ensureCurrentConfigs), StartFrom)

StartServer ==
    /\ \E s \in {OnStartClick(Cur)} : Commit(s, "start-server")

\* the page is called with msg (with at most MaxRepaints repaints outstanding)
IpcStatus(msg) ==
    /\ lastMsg' = msg
    /\ \E s \in {Dispatch(Cur, msg)} :
          /\ s.repaintFrames <= MaxRepaints
          /\ CommitAs(s, "ipc", FALSE)
    /\ UNCHANGED counters

\* the callback of requestHostRepaint's second animation frame
OnRepaintFrame(s) ==
    [(IF IpcAvailable(s) THEN postMessage(s, Command("repaint", s)) ELSE s)
        EXCEPT !.repaintFrames = @ - 1]

HostRepaint ==
    /\ repaintFrames > 0
    /\ \E s \in {OnRepaintFrame(Cur)} : Commit(s, "repaint")

\* a tick of the interval render set
PollTick ==
    /\ activeIntervals > 0
    /\ \E s \in {requestPlayers(Cur)} : Commit(s, "poll")

\* state.servers.filter(s => s.running).length
countRunning(s) == Cardinality({k \in 1..Len(s.servers) : s.servers[k].running})

\* #start-all-servers click
OnStartAllClick(s) ==
    Then(Then(bindConfigToForm(s), ensureCurrentConfigs),
         LAMBDA s1 :
            IF ~IpcAvailable(s1) THEN s1
            ELSE IF countRunning(s1) > 0 THEN postMessage(s1, Command("stop_all", s1))
            ELSE postMessage(s1, Command("start_all", s1)))

StartAll ==
    /\ \E s \in {OnStartAllClick(Cur)} : Commit(s, "start-all")

\* #stop-all-servers click
OnStopAllClick(s) ==
    Then(bindConfigToForm(s),
         LAMBDA s1 : IF IpcAvailable(s1) THEN postMessage(s1, Command("stop_all", s1)) ELSE s1)

StopAll ==
    /\ \E s \in {OnStopAllClick(Cur)} : Commit(s, "stop-all")

\* #edit-server-browse-hd2ds and #edit-server-browse-sabre clicks
OnBrowseDirClick(s, which) ==
    IF IpcAvailable(s) THEN postMessage(s, BrowseCommand(which, s)) ELSE s

BrowseDir ==
    \E which \in {"hd2ds", "sabre"} :
        \E s \in {OnBrowseDirClick(Cur, which)} : Commit(s, "browse-dir")

\* #mpmaplist-browse click
OnBrowseMapListClick(s) ==
    Then(bindConfigToForm(s),
         LAMBDA s1 : IF IpcAvailable(s1) THEN postMessage(s1, Command("browse_mpmaplist", s1))
                     ELSE s1)

BrowseMapList ==
    /\ \E s \in {OnBrowseMapListClick(Cur)} : Commit(s, "browse-mpmaplist")

\* #logs-refresh click
LogsRefresh ==
    /\ \E s \in {requestLogContent(Cur)} : Commit(s, "logs-refresh")

\* #logs-open-folder click
LogsOpen ==
    /\ \E s \in {openLogFile(Cur)} : Commit(s, "logs-open")

\* seq.splice(idx, 1)
RemoveAt(seq, idx) ==
    IF idx + 1 \in 1..Len(seq)
    THEN SubSeq(seq, 1, idx) \o SubSeq(seq, idx + 2, Len(seq))
    ELSE seq

\* #profile-new click
OnProfileNewClick(s) ==
    IF ~HasSelected(s) THEN s
    ELSE LET configs == getSelectedServer(s).configs
             base == IF Len(configs) > 0 THEN configs[Len(configs)]
                     ELSE Profile("New profile", "A Spectre Session")
             added == Append(configs, [base EXCEPT !.name = "New profile"])
         IN  render(setUnsaved(
                 [s EXCEPT !.servers[s.selectedServerIndex + 1].configs = added,
                           !.selectedConfigIndex = Len(added) - 1], TRUE))

ProfileNew ==
    /\ HasSelected(Cur) => Len(getSelectedServer(Cur).configs) < MaxProfiles
    /\ \E s \in {OnProfileNewClick(Cur)} : CommitAs(s, "profile-new", TRUE)
    /\ lastMsg' = ""
    /\ UNCHANGED counters

\* #profile-delete click
OnProfileDeleteClick(s) ==
    IF ~(HasSelected(s) /\ Len(getSelectedServer(s).configs) > 1) THEN s
    ELSE LET left == RemoveAt(getSelectedServer(s).configs, s.selectedConfigIndex)
         IN  render(setUnsaved(
                 [s EXCEPT !.servers[s.selectedServerIndex + 1].configs = left,
                           !.selectedConfigIndex = Min(@, Len(left) - 1)], TRUE))

ProfileDelete ==
    /\ \E s \in {OnProfileDeleteClick(Cur)} :
          CommitAs(s, "profile-delete", s.servers # servers)
    /\ lastMsg' = ""
    /\ UNCHANGED counters

\* Math.max.apply(null, ports) + 1, 22000 when there is no server
NextPort(list) ==
    LET ports == [k \in 1..Len(list) |-> OrElse(list[k].port, BasePort)]
    IN  IF Len(list) = 0 THEN BasePort
        ELSE (CHOOSE m \in Range(ports) : \A k \in 1..Len(list) : ports[k] <= m) + 1

\* #server-add click
OnServerAddClick(s) ==
    Then(bindConfigToForm(s),
         LAMBDA s1 :
            LET newServer == [Server(NextPort(s1.servers), "A Spectre Session", "", "")
                                 EXCEPT !.name = "New profile"]
                added == Append(s1.servers, newServer)
            IN  render(setUnsaved(
                    [s1 EXCEPT !.servers = added,
                               !.selectedServerIndex = Len(added) - 1,
                               !.selectedConfigIndex = 0], TRUE)))

ServerAdd ==
    /\ Len(servers) < MaxServers
    /\ NextPort(servers) < BasePort + MaxPorts
    /\ \E s \in {OnServerAddClick(Cur)} : CommitAs(s, "server-add", TRUE)
    /\ lastMsg' = ""
    /\ UNCHANGED counters

\* a server-delete click without the test of state.servers.length
OnServerDeleteUnguarded(s) ==
    Then(bindConfigToForm(s),
         LAMBDA s1 :
            LET left == RemoveAt(s1.servers, s1.selectedServerIndex)
                idx == Min(s1.selectedServerIndex, Len(left) - 1)
            IN  render(setUnsaved(
                    [s1 EXCEPT !.servers = left,
                               !.selectedServerIndex = IF idx < 0 THEN 0 ELSE idx,
                               !.selectedConfigIndex = 0], TRUE)))

\* #server-delete click
OnServerDeleteClick(s) ==
    IF Len(s.servers) <= 1 THEN s
    ELSE Then(bindConfigToForm(s),
              LAMBDA s1 :
                 LET left == RemoveAt(s1.servers, s1.selectedServerIndex)
                     idx == Min(s1.selectedServerIndex, Len(left) - 1)
                 IN  render(setUnsaved(
                         [s1 EXCEPT !.servers = left,
                                    !.selectedServerIndex = IF idx < 0 THEN 0 ELSE idx,
                                    !.selectedConfigIndex = 0], TRUE)))

ServerDelete ==
    /\ \E s \in {OnServerDeleteClick(Cur)} :
          CommitAs(s, "server-delete", Len(s.servers) # Len(servers))
    /\ lastMsg' = ""
    /\ UNCHANGED counters

\* the user types value into #profile-name: the listener of the input, then
\* the .content input listener the event bubbles to
OnProfileNameInput(s, value) ==
    Then(bindConfigToForm([s EXCEPT !.form.profile_name = value]),
         LAMBDA s1 :
            setUnsaved(bindConfigToForm(
                IF HasSelectedConfig(s1)
                THEN [s1 EXCEPT !.servers[s1.selectedServerIndex + 1].name =
                                    getSelectedConfig(s1).name]
                ELSE s1), TRUE))

ProfileRename ==
    \E value \in ProfileNames :
        /\ \E s \in {OnProfileNameInput(Cur, value)} : CommitAs(s, "profile-name", TRUE)
        /\ lastMsg' = ""
        /\ UNCHANGED counters

\* click on a .profile-item
OnProfileItemClick(s, i) == render([s EXCEPT !.selectedConfigIndex = i])

ProfileSelect ==
    /\ HasSelected(Cur)
    /\ \E i \in 0..(Len(getSelectedServer(Cur).configs) - 1) :
          \E s \in {OnProfileItemClick(Cur, i)} : Commit(s, "profile-select")

\* Array.prototype.splice(idx, 0, item)
InsertAt(seq, idx, item) ==
    SubSeq(seq, 1, Min(idx, Len(seq))) \o << item >> \o SubSeq(seq, Min(idx, Len(seq)) + 1, Len(seq))

\* #profile-duplicate click
OnProfileDuplicateClick(s) ==
    IF ~HasSelectedConfig(s) THEN s
    ELSE LET c == getSelectedConfig(s)
             copy == [c EXCEPT !.name = @ \o " (copy)"]
         IN  render(setUnsaved(
                 [s EXCEPT !.servers[s.selectedServerIndex + 1].configs =
                               InsertAt(@, s.selectedConfigIndex + 1, copy),
                           !.selectedConfigIndex = @ + 1], TRUE))

ProfileDuplicate ==
    /\ HasSelectedConfig(Cur)
    /\ Len(getSelectedServer(Cur).configs) < MaxProfiles
    /\ Len(getSelectedConfig(Cur).name) + Len(" (copy)") <= MaxNameLen
    /\ \E s \in {OnProfileDuplicateClick(Cur)} : CommitAs(s, "profile-duplicate", TRUE)
    /\ lastMsg' = ""
    /\ UNCHANGED counters

\* the host wires or unwires window.ipc
IpcChange ==
    /\ \E s \in {[Cur EXCEPT !.ipc = IF @ = "ok" THEN "missing" ELSE "ok"]} :
          Commit(s, "ipc-change")

Roster == \E msg \in RosterMessages : IpcStatus(msg)

PollPush == \E msg \in PollMessages : IpcStatus(msg)

PanelPush == \E msg \in PanelMessages : IpcStatus(msg)

Reply == \E msg \in ReplyMessages : IpcStatus(msg)

Push == \E msg \in PushMessages : IpcStatus(msg)

\* The save coordinator and the host's replies
Next ==
    \/ Edit
    \/ SelectServer
    \/ AutoSave
    \/ ManualSave
    \/ RenderFrame
    \/ HostRepaint
    \/ Reply

Spec == Init /\ [][Next]_vars

\* Starting and stopping servers and the host's pushes
NextPush ==
    \/ SelectServer
    \/ StartServer
    \/ StartAll
    \/ StopAll
    \/ RenderFrame
    \/ PollTick
    \/ HostRepaint
    \/ Push

SpecPush == Init /\ [][NextPush]_vars

\* Edits and the debounce callback alone, with the history counters kept
CountedEdit ==
    \E value \in SessionNames :
        /\ value # form.session_name
        /\ editCount < MaxEdits
        /\ \E s \in {OnContentInput(Cur, value)} : CommitAs(s, "edit", TRUE)
        /\ lastMsg' = ""
        /\ editCount' = editCount + 1
        /\ burstCount' = IF pendingTimeouts = 0 THEN burstCount + 1 ELSE burstCount
        /\ saveCount' = saveCount + Len(sent')
        /\ UNCHANGED <<unconfirmedSaves, pendingCommand>>

CountedAutoSave ==
    /\ pendingTimeouts > 0
    /\ \E s \in {OnAutoSaveTimeout(Cur)} : CommitAs(s, "autosave", FALSE)
    /\ lastMsg' = ""
    /\ saveCount' = saveCount + Len(sent')
    /\ UNCHANGED <<editCount, burstCount, unconfirmedSaves, pendingCommand>>

NextDebounce == CountedEdit \/ CountedAutoSave

SpecDebounce == Init /\ [][NextDebounce]_vars

\* The roster and the replies that do not parse, while edits wait to be saved
NextRoster ==
    \/ Edit
    \/ AutoSave
    \/ RenderFrame
    \/ Roster

SpecRoster == Init /\ [][NextRoster]_vars

\* Profiles and servers added and deleted
NextLists ==
    \/ Edit
    \/ SelectServer
    \/ AutoSave
    \/ ProfileNew
    \/ ProfileDelete
    \/ ServerAdd
    \/ ServerDelete

SpecLists == Init /\ [][NextLists]_vars

\* The player poll under renders, selections, running flags, added and
\* deleted servers, and a transport that comes and goes
NextPoll ==
    \/ SelectServer
    \/ RenderFrame
    \/ PollTick
    \/ HostRepaint
    \/ AutoSave
    \/ ServerAdd
    \/ ServerDelete
    \/ IpcChange
    \/ PollPush

SpecPoll == Init /\ [][NextPoll]_vars

\* Names: the handlers that write a server's name and the profile names
NextNames ==
    \/ ServerAdd
    \/ ProfileDuplicate
    \/ ProfileDelete
    \/ ProfileRename
    \/ ProfileSelect
    \/ ManualSave

SpecNames == Init /\ [][NextNames]_vars

\* p.replace(/\\/g, '/')
RECURSIVE SlashPath(_)
SlashPath(p) ==
    IF p = "" THEN ""
    ELSE (IF CharAt(p, 1) = "\\" THEN "/" ELSE CharAt(p, 1)) \o SlashPath(Slice(p, 1))

getPathFileName(path) ==
    LET p == SlashPath(Trim(path))
        last == LastIndexOf(p, "/")
    IN  toLowerCase(IF last < 0 THEN p ELSE Slice(p, last + 1))

\* the messages of the invalid results
validateHd2dsPath(path) ==
    IF Trim(path) = "" THEN << >>
    ELSE IF getPathFileName(Trim(path)) # "hd2ds.exe"
    THEN << "HD2DS.exe location must point to a file named HD2DS.exe" >>
    ELSE << >>

validateSabrePath(path) ==
    IF Trim(path) = "" THEN << >>
    ELSE IF getPathFileName(Trim(path)) # "hd2ds_sabresquadron.exe"
    THEN << "HD2DS_SabreSquadron.exe location must point to a file named HD2DS_SabreSquadron.exe" >>
    ELSE << >>

getEditServerValidationErrors(hd2ds, sabre) ==
    validateHd2dsPath(Trim(hd2ds)) \o validateSabrePath(Trim(sabre))

\* errs.join(' ')
RECURSIVE JoinSpace(_)
JoinSpace(errs) ==
    IF Len(errs) = 0 THEN ""
    ELSE IF Len(errs) = 1 THEN errs[1]
    ELSE errs[1] \o " " \o JoinSpace(Tail(errs))

\* state.servers.some(... i !== selectedServerIndex && (sv.port || 22000) === port)
otherHasPort(s, port) ==
    \E k \in 1..Len(s.servers) :
        /\ k # s.selectedServerIndex + 1
        /\ OrElse(s.servers[k].port, BasePort) = port

\* the submit handler stores its inputs
EditServerAccepted(s, portText, hd2ds, sabre) ==
    LET port == parseInt(portText)
    IN  /\ HasSelected(s)
        /\ ~(port # NaN /\ (port < 1 \/ port > 65535))
        /\ ~otherHasPort(s, port)
        /\ getEditServerValidationErrors(hd2ds, sabre) = << >>

\* #edit-server-dialog submit, without the test of the other servers' ports
OnEditServerSubmitAnyPort(s, portText, hd2ds, sabre) ==
    LET port == parseInt(portText)
        errs == getEditServerValidationErrors(hd2ds, sabre)
    IN  IF ~HasSelected(s) THEN s
        ELSE IF port # NaN /\ (port < 1 \/ port > 65535) THEN s
        ELSE IF errs # << >> THEN showMessage(s, JoinSpace(errs), "error")
        ELSE setUnsaved(
                 [s EXCEPT !.servers[s.selectedServerIndex + 1] =
                     [@ EXCEPT !.port = port,
                               !.hd2ds_path = Trim(hd2ds),
                               !.hd2ds_sabresquadron_path = Trim(sabre)]], TRUE)

\* #edit-server-dialog submit
OnEditServerSubmit(s, portText, hd2ds, sabre) ==
    LET port == parseInt(portText)
        errs == getEditServerValidationErrors(hd2ds, sabre)
    IN  IF ~HasSelected(s) THEN s
        ELSE IF port # NaN /\ (port < 1 \/ port > 65535) THEN s
        ELSE IF otherHasPort(s, port)
        THEN showMessage(s, "Another server already uses that port.", "error")
        ELSE IF errs # << >> THEN showMessage(s, JoinSpace(errs), "error")
        ELSE setUnsaved(
                 [s EXCEPT !.servers[s.selectedServerIndex + 1] =
                     [@ EXCEPT !.port = port,
                               !.hd2ds_path = Trim(hd2ds),
                               !.hd2ds_sabresquadron_path = Trim(sabre)]], TRUE)

EditServerStep(portText, hd2ds, sabre) ==
    /\ \E s \in {OnEditServerSubmit(Cur, portText, hd2ds, sabre)} :
          CommitAs(s, "edit-server", EditServerAccepted(Cur, portText, hd2ds, sabre))
    /\ lastMsg' = ""
    /\ UNCHANGED counters

EditServerSubmit ==
    \E portText \in PortTexts, hd2ds \in Hd2dsPaths, sabre \in SabrePaths :
        EditServerStep(portText, hd2ds, sabre)

\* an input event of a field inside .content: the field holds text
OnFieldInput(s, field, text) ==
    setUnsaved(bindConfigToForm([s EXCEPT !.form[field] = text]), TRUE)

FieldInput ==
    \E field \in NumericFields, text \in FieldTexts :
        /\ editCount < MaxWrites
        /\ \E s \in {OnFieldInput(Cur, field, text)} : CommitAs(s, "field-input", TRUE)
        /\ lastMsg' = ""
        /\ editCount' = editCount + 1
        /\ UNCHANGED <<burstCount, saveCount, unconfirmedSaves, pendingCommand>>

\* the map pools the host scanned for a server
Pools ==
    [st \in Styles |->
        CASE st = "Objectives" -> << "Alps3", "Burgundy1" >>
          [] st = "Occupation" -> << "Africa1", "Alps3" >>
          [] OTHER -> << >>]

\* a server the host handed over with its pools and two profiles
PooledServers ==
    << [HostServer(BasePort, "A Spectre Session") EXCEPT
           !.available_maps_by_style = Pools,
           !.configs = << Profile("Default", "A Spectre Session"),
                          [Profile("Night", "Night Ops") EXCEPT
                              !.style = "Deathmatch", !.maps = << >>] >>] >>

\* #style-select change, without the reset of the rotation
OnStyleChangeKeepingMaps(s, style) ==
    Then(bindConfigToForm([s EXCEPT !.form.style_select = style]),
         LAMBDA s1 : setUnsaved(bindConfigToForm(render(setUnsaved(s1, TRUE))), TRUE))

\* #style-select change, then the change listener of .content
OnStyleChange(s, style) ==
    Then(bindConfigToForm([s EXCEPT !.form.style_select = style]),
         LAMBDA s1 :
            setUnsaved(bindConfigToForm(render(setUnsaved(
                IF HasSelectedConfig(s1)
                THEN [s1 EXCEPT !.servers[s1.selectedServerIndex + 1]
                                   .configs[s1.selectedConfigIndex + 1].maps = << >>]
                ELSE s1, TRUE))), TRUE))

StyleChange ==
    \E style \in Styles :
        /\ style # form.style_select
        /\ \E s \in {OnStyleChange(Cur, style)} : CommitAs(s, "style-change", TRUE)
        /\ lastMsg' = ""
        /\ UNCHANGED counters

\* click on entry idx of #available-map-list
OnAvailableMapClick(s, idx) ==
    renderAvailableMapList([s EXCEPT !.selectedAvailableMapIndex = idx])

AvailableMapClick ==
    \E idx \in 0..(Len(getAvailableMapsForRotation(Cur)) - 1) :
        \E s \in {OnAvailableMapClick(Cur, idx)} : Commit(s, "available-map-click")

\* #map-add click
OnMapAddClick(s) ==
    LET available == getAvailableMapsForRotation(s)
    IN  IF ~HasSelectedConfig(s) THEN s
        ELSE IF s.selectedAvailableMapIndex < 0
                \/ s.selectedAvailableMapIndex >= Len(available) THEN s
        ELSE LET maps == Append(getSelectedConfig(s).maps,
                                available[s.selectedAvailableMapIndex + 1])
                 s1 == [s EXCEPT !.servers[s.selectedServerIndex + 1]
                                    .configs[s.selectedConfigIndex + 1].maps = maps,
                                 !.selectedMapIndex = Len(maps) - 1,
                                 !.selectedAvailableMapIndex = -1]
             IN  renderMapList(renderAvailableMapList(setUnsaved(s1, TRUE)))

MapAdd ==
    /\ \E s \in {OnMapAddClick(Cur)} :
          CommitAs(s, "map-add", s.servers # servers)
    /\ lastMsg' = ""
    /\ UNCHANGED counters

\* the entries pushed when Math.random picks index draws[i] of what is left
RECURSIVE DrawFrom(_, _)
DrawFrom(pool, draws) ==
    IF draws = << >> THEN << >>
    ELSE << pool[draws[1] + 1] >> \o DrawFrom(RemoveAt(pool, draws[1]), Tail(draws))

\* n of the random-add handler: NaN or below 1 is 1, at most the available maps
RandomCount(countText, available) ==
    LET n == parseInt(countText)
    IN  Min(IF n = NaN \/ n < 1 THEN 1 ELSE n, Len(available))

\* the values Math.floor(Math.random() * pool.length) takes in n rounds
RandomDraws(n, size) ==
    { d \in [1..n -> 0..(size - 1)] : \A i \in 1..n : d[i] <= size - i }

\* #map-add-random click that leaves the picked entries in the pool
OnMapAddRandomKeeping(s, countText, draws) ==
    LET available == getAvailableMapsForRotation(s)
    IN  IF ~HasSelectedConfig(s) \/ Len(available) = 0 THEN s
        ELSE LET maps == getSelectedConfig(s).maps
                             \o [i \in 1..Len(draws) |-> available[draws[i] + 1]]
                 s1 == [s EXCEPT !.servers[s.selectedServerIndex + 1]
                                    .configs[s.selectedConfigIndex + 1].maps = maps,
                                 !.selectedMapIndex = Len(maps) - 1]
             IN  renderMapList(renderAvailableMapList(setUnsaved(s1, TRUE)))

\* #map-add-random click
OnMapAddRandomClick(s, countText, draws) ==
    LET available == getAvailableMapsForRotation(s)
    IN  IF ~HasSelectedConfig(s) \/ Len(available) = 0 THEN s
        ELSE LET maps == getSelectedConfig(s).maps \o DrawFrom(available, draws)
                 s1 == [s EXCEPT !.servers[s.selectedServerIndex + 1]
                                    .configs[s.selectedConfigIndex + 1].maps = maps,
                                 !.selectedMapIndex = Len(maps) - 1]
             IN  renderMapList(renderAvailableMapList(setUnsaved(s1, TRUE)))

MapAddRandom ==
    \E countText \in CountTexts :
        LET typed == [Cur EXCEPT !.form.map_add_random_count = countText]
            available == getAvailableMapsForRotation(typed)
        IN  \E draws \in RandomDraws(RandomCount(countText, available), Len(available)) :
                /\ \E s \in {OnMapAddRandomClick(typed, countText, draws)} :
                      CommitAs(s, "map-add-random", s.servers # servers)
                /\ lastMsg' = ""
                /\ UNCHANGED counters

\* Rotation: the handlers that write a profile's map rotation, on a server
\* the host handed over with its pools
NextRotation ==
    \/ StyleChange
    \/ AvailableMapClick
    \/ MapAdd
    \/ MapAddRandom
    \/ ProfileSelect

SpecRotation == InitFrom(PooledServers) /\ [][NextRotation]_vars

\* #ban-list-add click that stores the whole comment
OnBanAddUncapped(s, ipText, commentText) ==
    LET ip == Trim(ipText)
        comment == Trim(commentText)
        entry == IF comment # "" THEN ip \o ":>" \o comment ELSE ip
        typed == [s EXCEPT !.form.ban_list_add_ip = ipText,
                           !.form.ban_list_add_comment = commentText]
    IN  IF ~HasSelectedConfig(s) \/ ip = "" THEN typed
        ELSE LET list == Append(getSelectedConfig(s).ban_list, entry)
                 s1 == [typed EXCEPT !.servers[s.selectedServerIndex + 1]
                                        .configs[s.selectedConfigIndex + 1].ban_list = list,
                                     !.form.ban_list_add_ip = "",
                                     !.form.ban_list_add_comment = "",
                                     !.selectedBanIndex = Len(list) - 1]
             IN  renderBanList(setUnsaved(s1, TRUE))

\* #ban-list-add click, with the two inputs holding ipText and commentText
OnBanAddClick(s, ipText, commentText) ==
    LET ip == Trim(ipText)
        trimmed == Trim(commentText)
        comment == SubSeq(trimmed, 1, Min(Len(trimmed), BAN_REASON_MAX))
        entry == IF comment # "" THEN ip \o ":>" \o comment ELSE ip
        typed == [s EXCEPT !.form.ban_list_add_ip = ipText,
                           !.form.ban_list_add_comment = commentText]
    IN  IF ~HasSelectedConfig(s) \/ ip = "" THEN typed
        ELSE LET list == Append(getSelectedConfig(s).ban_list, entry)
                 s1 == [typed EXCEPT !.servers[s.selectedServerIndex + 1]
                                        .configs[s.selectedConfigIndex + 1].ban_list = list,
                                     !.form.ban_list_add_ip = "",
                                     !.form.ban_list_add_comment = "",
                                     !.selectedBanIndex = Len(list) - 1]
             IN  renderBanList(setUnsaved(s1, TRUE))

BanAddStep(ipText, commentText) ==
    /\ HasSelectedConfig(Cur)
    /\ Len(getSelectedConfig(Cur).ban_list) < MaxBans
    /\ \E s \in {OnBanAddClick(Cur, ipText, commentText)} :
          CommitAs(s, "ban-add", s.servers # servers)
    /\ lastMsg' = ""
    /\ UNCHANGED counters

BanAdd == \E ipText \in IpTexts, commentText \in CommentTexts : BanAddStep(ipText, commentText)

\* the comments typed in the entries specification: none, and one longer than the cap
EntryComments == {"", "abcdefghijklmnopqrstuvwxyz0123"}

\* #ban-list-add click with a comment of EntryComments
BanAddEntry == \E ipText \in IpTexts, commentText \in EntryComments : BanAddStep(ipText, commentText)

\* #ban-list-remove click that splices whatever the selection index is
OnBanRemoveUnguarded(s) ==
    IF ~HasSelectedConfig(s) THEN s
    ELSE LET old == getSelectedConfig(s).ban_list
             list == IF s.selectedBanIndex + 1 \in 1..Len(old)
                     THEN RemoveAt(old, s.selectedBanIndex)
                     ELSE SubSeq(old, 1, Len(old) - 1)
             s1 == [s EXCEPT !.servers[s.selectedServerIndex + 1]
                                .configs[s.selectedConfigIndex + 1].ban_list = list,
                             !.selectedBanIndex =
                                 IF Len(list) = 0 THEN -1
                                 ELSE Min(s.selectedBanIndex, Len(list) - 1)]
         IN  Then(setUnsaved(s1, TRUE), renderBanList)

\* #ban-list-remove click
OnBanRemoveClick(s) ==
    IF \/ ~HasSelectedConfig(s)
       \/ s.selectedBanIndex < 0
       \/ s.selectedBanIndex >= Len(getSelectedConfig(s).ban_list)
    THEN s
    ELSE LET list == RemoveAt(getSelectedConfig(s).ban_list, s.selectedBanIndex)
             s1 == [s EXCEPT !.servers[s.selectedServerIndex + 1]
                                .configs[s.selectedConfigIndex + 1].ban_list = list,
                             !.selectedBanIndex =
                                 IF Len(list) = 0 THEN -1
                                 ELSE Min(s.selectedBanIndex, Len(list) - 1)]
         IN  Then(setUnsaved(s1, TRUE), renderBanList)

BanRemove ==
    /\ \E s \in {OnBanRemoveClick(Cur)} : CommitAs(s, "ban-remove", s.servers # servers)
    /\ lastMsg' = ""
    /\ UNCHANGED counters

\* click on row idx of #ban-list (the click delegate); the rows are those
\* of the last render
OnBanRowClick(s, idx) == renderBanList([s EXCEPT !.selectedBanIndex = idx])

BanRowClick ==
    /\ HasSelectedConfig(Cur)
    /\ ~renderRequested
    /\ \E idx \in 0..(Len(getSelectedConfig(Cur).ban_list) - 1) :
          Commit(OnBanRowClick(Cur, idx), "ban-row")

\* #whitelist-add click, with the two inputs holding ipText and commentText
OnWhitelistAddClick(s, ipText, commentText) ==
    LET ip == Trim(ipText)
        comment == Trim(commentText)
        entry == IF comment # "" THEN ip \o ":>" \o comment ELSE ip
        typed == [s EXCEPT !.form.whitelist_add_ip = ipText,
                           !.form.whitelist_add_comment = commentText]
    IN  IF ~HasSelectedConfig(s) \/ ip = "" THEN typed
        ELSE LET list == Append(getSelectedConfig(s).whitelist, entry)
                 s1 == [typed EXCEPT !.servers[s.selectedServerIndex + 1]
                                        .configs[s.selectedConfigIndex + 1].whitelist = list,
                                     !.form.whitelist_add_ip = "",
                                     !.form.whitelist_add_comment = "",
                                     !.selectedWhitelistIndex = Len(list) - 1]
             IN  Then(setUnsaved(s1, TRUE), renderWhitelist)

WhitelistAddStep(ipText, commentText) ==
    /\ HasSelectedConfig(Cur)
    /\ Len(getSelectedConfig(Cur).whitelist) < MaxBans
    /\ \E s \in {OnWhitelistAddClick(Cur, ipText, commentText)} :
          CommitAs(s, "whitelist-add", s.servers # servers)
    /\ lastMsg' = ""
    /\ UNCHANGED counters

WhitelistAdd ==
    \E ipText \in IpTexts, commentText \in EntryComments : WhitelistAddStep(ipText, commentText)

\* #whitelist-remove click
OnWhitelistRemoveClick(s) ==
    IF \/ ~HasSelectedConfig(s)
       \/ s.selectedWhitelistIndex < 0
       \/ s.selectedWhitelistIndex >= Len(getSelectedConfig(s).whitelist)
    THEN s
    ELSE LET list == RemoveAt(getSelectedConfig(s).whitelist, s.selectedWhitelistIndex)
             s1 == [s EXCEPT !.servers[s.selectedServerIndex + 1]
                                .configs[s.selectedConfigIndex + 1].whitelist = list,
                             !.selectedWhitelistIndex =
                                 IF Len(list) = 0 THEN -1
                                 ELSE Min(s.selectedWhitelistIndex, Len(list) - 1)]
         IN  Then(setUnsaved(s1, TRUE), renderWhitelist)

WhitelistRemove ==
    /\ \E s \in {OnWhitelistRemoveClick(Cur)} :
          CommitAs(s, "whitelist-remove", s.servers # servers)
    /\ lastMsg' = ""
    /\ UNCHANGED counters

\* click on row idx of #whitelist-list (the click delegate)
OnWhitelistRowClick(s, idx) == renderWhitelist([s EXCEPT !.selectedWhitelistIndex = idx])

WhitelistRowClick ==
    /\ HasSelectedConfig(Cur)
    /\ ~renderRequested
    /\ \E idx \in 0..(Len(getSelectedConfig(Cur).whitelist) - 1) :
          Commit(OnWhitelistRowClick(Cur, idx), "whitelist-row")

\* the host pushes a snapshot whose only profile has empty lists
EntriesPush == IpcStatus("STATE:" \o HostArrayText(<< HostServer(BasePort, "A Spectre Session") >>))

\* the debounce callback, with the save it posts counted as unanswered
TrackedAutoSave ==
    /\ pendingTimeouts > 0
    /\ unconfirmedSaves < MaxUnconfirmed
    /\ \E s \in {OnAutoSaveTimeout(Cur)} :
          /\ CommitAs(s, "autosave", FALSE)
          /\ unconfirmedSaves' = unconfirmedSaves + (IF PostedSave(s) THEN 1 ELSE 0)
    /\ lastMsg' = ""
    /\ UNCHANGED <<editCount, burstCount, saveCount, pendingCommand>>

\* what the host answers to a save
SaveReplies == {"Saved OK", "Save failed: disk full"}

\* the host answers the oldest save it has not answered yet
SaveReply ==
    /\ unconfirmedSaves > 0
    /\ \E msg \in SaveReplies :
          /\ lastMsg' = msg
          /\ \E s \in {Dispatch(Cur, msg)} :
                /\ s.repaintFrames <= MaxRepaints
                /\ CommitAs(s, "save-reply", FALSE)
    /\ unconfirmedSaves' = unconfirmedSaves - 1
    /\ UNCHANGED <<editCount, burstCount, saveCount, pendingCommand>>

\* Acknowledgements: edits, the saves their timers post and the host's
\* answer to each save, in the order the saves were posted
NextAck ==
    \/ Edit
    \/ TrackedAutoSave
    \/ SaveReply
    \/ HostRepaint
    \/ IpcChange

SpecAck == Init /\ [][NextAck]_vars

\* #start-server click, with the command it posts remembered until the host
\* answers it
TrackedStart ==
    /\ pendingCommand = NoCommand
    /\ \E s \in {OnStartClick(Cur)} :
          /\ CommitAs(s, "start-server", FALSE)
          /\ pendingCommand' =
                IF \E k \in 1..Len(s.sent) : s.sent[k].action \in {"start", "stop"}
                THEN LET k == CHOOSE k \in 1..Len(s.sent) : s.sent[k].action \in {"start", "stop"}
                     IN  [action |-> s.sent[k].action, index |-> s.sent[k].server_index]
                ELSE NoCommand
    /\ lastMsg' = ""
    /\ UNCHANGED <<editCount, burstCount, saveCount, unconfirmedSaves>>

\* the host answers the command posted: `Started OK` to start, `Stopped OK` to stop
CommandReply ==
    /\ pendingCommand # NoCommand
    /\ \E msg \in {IF pendingCommand.action = "start" THEN "Started OK" ELSE "Stopped OK"} :
          /\ lastMsg' = msg
          /\ \E s \in {Dispatch(Cur, msg)} : CommitAs(s, "command-reply", FALSE)
    /\ pendingCommand' = NoCommand
    /\ UNCHANGED <<editCount, burstCount, saveCount, unconfirmedSaves>>

\* Attribution: two configured servers, start and stop clicks, selection
\* changes and the host's answer to each command
NextAttribution ==
    \/ TrackedStart
    \/ CommandReply
    \/ SelectServer
    \/ RenderFrame
    \/ PollTick

SpecAttribution == InitFrom(ConfiguredPair) /\ [][NextAttribution]_vars

\* click on the hidden IP cell of row i of the players table (the click delegate)
OnPlayerRevealClick(s, i) == [s EXCEPT !.playerListRevealed = @ \cup {i}]

\* the rows are those of the last render; a revealed cell takes no click
PlayerRevealClick ==
    /\ ~renderRequested
    /\ \E i \in 0..(Len(currentPlayerList) - 1) :
          /\ i \notin playerListRevealed
          /\ Commit(OnPlayerRevealClick(Cur, i), "player-reveal")

\* c.ban_list.indexOf(ip) !== -1
HasBanEntry(list, ip) == \E k \in 1..Len(list) : list[k] = ip

\* click on the Ban button of a row of the players table whose data-ip is ipText
OnPlayerBanClick(s, ipText) ==
    LET ip == Trim(ipText)
        reason == "Unspecified ban"
    IN  IF ip = "" \/ ~HasSelectedConfig(s) THEN s
        ELSE IF HasBanEntry(getSelectedConfig(s).ban_list, ip) THEN s
        ELSE LET list == Append(getSelectedConfig(s).ban_list,
                                ip \o ":>" \o SubSeq(reason, 1, Min(Len(reason), BAN_REASON_MAX)))
                 s1 == [s EXCEPT !.servers[s.selectedServerIndex + 1]
                                    .configs[s.selectedConfigIndex + 1].ban_list = list,
                                 !.selectedBanIndex = Len(list) - 1]
             IN  Then(setUnsaved(s1, TRUE), renderBanList)

PlayerBanStep(ipText) ==
    /\ HasSelectedConfig(Cur)
    /\ Len(getSelectedConfig(Cur).ban_list) < MaxBans
    /\ \E s \in {OnPlayerBanClick(Cur, ipText)} :
          CommitAs(s, "player-ban", s.servers # servers)
    /\ lastMsg' = ""
    /\ UNCHANGED counters

\* the buttons are those of the last render
PlayerBanClick ==
    /\ ~renderRequested
    /\ \E i \in 1..Len(currentPlayerList) : PlayerBanStep(currentPlayerList[i].ip)

\* the rosters the host reports, one after the other
RevealPayloads == {"[]", PlayersText, LaterPlayersText}

PlayersPush == \E p \in RevealPayloads : IpcStatus("PLAYER_LIST:" \o p)

\* #ban-list-add click with an IP of the roster and no comment
BanAddPlain == \E i \in 1..Len(Players) : BanAddStep(Players[i].ip, "")

\* Players: the roster the host reports, and the clicks on its rows
NextPlayers ==
    \/ PlayersPush
    \/ RenderFrame
    \/ PlayerRevealClick
    \/ PlayerBanClick
    \/ BanAddPlain
    \/ AutoSave

SpecPlayers == Init /\ [][NextPlayers]_vars

\* Entries: the handlers that write a profile's ban list and whitelist
NextEntries ==
    \/ BanAddEntry
    \/ BanRemove
    \/ BanRowClick
    \/ WhitelistAdd
    \/ WhitelistRemove
    \/ WhitelistRowClick
    \/ EntriesPush
    \/ RenderFrame

SpecEntries == InitFrom(PooledServers) /\ [][NextEntries]_vars

\* Bans: the handlers that write a profile's ban list
NextBans ==
    \/ BanAdd
    \/ ProfileSelect
    \/ AutoSave

SpecBans == InitFrom(PooledServers) /\ [][NextBans]_vars

\* Fields: the numeric inputs and the handlers that read them
NextFields ==
    \/ FieldInput
    \/ AutoSave
    \/ ManualSave

SpecFields == Init /\ [][NextFields]_vars

\* Ports: the handlers that write a server's port
NextPorts ==
    \/ ServerAdd
    \/ ServerDelete
    \/ SelectServer
    \/ EditServerSubmit
    \/ AutoSave

SpecPorts == Init /\ [][NextPorts]_vars

\* current_config: the handlers that leave it naming no profile and those that
\* send it, from the built-in default or from servers the host handed over
InitHeal == \E list \in {DefaultServers, StaleServers} : InitFrom(list)

NextHeal ==
    \/ SelectServer
    \/ ProfileNew
    \/ ProfileDelete
    \/ ProfileRename
    \/ ProfileSelect
    \/ AutoSave
    \/ ManualSave
    \/ StartServer
    \/ StartAll

SpecHeal == InitHeal /\ [][NextHeal]_vars

\* Every operation of the panel that sends a command, with a transport that
\* comes and goes
NextPanel ==
    \/ Edit
    \/ AutoSave
    \/ ManualSave
    \/ SelectServer
    \/ StartServer
    \/ StartAll
    \/ StopAll
    \/ BrowseDir
    \/ BrowseMapList
    \/ LogsRefresh
    \/ LogsOpen
    \/ RenderFrame
    \/ PollTick
    \/ HostRepaint
    \/ IpcChange
    \/ PanelPush

SpecPanel == Init /\ [][NextPanel]_vars

----------------------------------------------------------------------------
(* Notices and commands the properties name *)

Notice(text, kind) == << [text |-> text, kind |-> kind] >>

SaveCommand(list) ==
    << [ action |-> "save", servers |-> list, server_index |-> -1,
         server_manager |-> << ServerManager >>, browse_which |-> "" ] >>

OutstandingTimer == autoSaveTimeout /\ pendingTimeouts = 1

NoTimer == ~autoSaveTimeout /\ pendingTimeouts = 0

\* the variables of the page, without what the last handler posted and showed
programVars ==
    <<servers, selectedServerIndex, selectedConfigIndex, server_manager,
      selectedMapIndex, selectedAvailableMapIndex, selectedBanIndex,
      selectedWhitelistIndex, form, unsavedChanges,
      autoSaveTimeout, pendingTimeouts, ipc, serverStarting, serverError,
      renderRequested, playerPollTimer, lastPlayerPollRunning, activeIntervals,
      repaintFrames, currentPlayerList, playerListRevealed, lastPlayerListJson,
      logContent>>

\* STATE: and REFRESH: messages whose payload is a JSON array of servers
SnapshotPrefixes == {"STATE:", "REFRESH:"}

----------------------------------------------------------------------------
(* C1: Saved OK racing a newer edit.  When `Saved OK` arrives while the     *)
(* debounce timer of a newer edit is pending, the dirty flag stays set, one *)
(* timer is pending again and the instance list is untouched; and when the  *)
(* timer fires with the transport available, exactly one `save` command is  *)
(* posted, carrying the current list with the form's edit bound into the    *)
(* selected instance.                                                       *)
SavedOkKeepsNewerEdit ==
    [][ /\ (autoSaveTimeout /\ IpcStatus("Saved OK"))
            => (unsavedChanges' /\ OutstandingTimer' /\ servers' = servers)
        /\ (ipc = "ok" /\ AutoSave)
            => /\ sent' = SaveCommand(servers')
               /\ \A k \in 1..Len(servers) :
                     IF k = selectedServerIndex + 1
                     THEN servers'[k].configs[selectedConfigIndex + 1].session_name
                             = form.session_name
                     ELSE servers'[k] = servers[k]
      ]_vars

\* a save was posted, an edit followed, and Saved OK has just arrived before the timer fired
SavedOkRaceSeen ==
    /\ savePhase = "edited"
    /\ lastMsg = "Saved OK"
    /\ shown = Notice("Saved", "success")
    /\ unsavedChanges
    /\ OutstandingTimer

(* C2: STATE: racing a newer edit.  As stated: when a well-formed STATE:    *)
(* confirmation arrives while the debounce timer of a newer edit is        *)
(* pending, the coordinator stays Dirty with a timer pending.              *)
StateKeepsNewerEdit ==
    [][ \A t \in SnapshotArrayTexts :
          (autoSaveTimeout /\ savePhase = "edited" /\ IpcStatus("STATE:" \o t))
            => (unsavedChanges' /\ OutstandingTimer')
      ]_vars

(* C3: Debounce.  With the transport available, in any run of edits and    *)
(* timer firings the number of `save` commands posted plus the number of   *)
(* pending timers equals the number of bursts (edits made while no timer   *)
(* was pending), and at most one timer is pending: a burst of N edits ends *)
(* in exactly one save, N separated edits in N saves.                      *)
DebounceOneSavePerBurst ==
    (ipc = "ok") =>
        /\ saveCount + pendingTimeouts = burstCount
        /\ pendingTimeouts <= 1
        /\ autoSaveTimeout = (pendingTimeouts = 1)
        /\ (lastOp = "edit" => sent = <<>> /\ OutstandingTimer)

\* three bursts, one of them of several edits, all saved: three saves
DebounceBurstsSeen ==
    /\ ipc = "ok"
    /\ burstCount = 3
    /\ editCount >= 5
    /\ saveCount = 3
    /\ pendingTimeouts = 0

(* C4: Manual save.  The save-config click leaves no debounce timer        *)
(* pending and, with the transport available, posts exactly one `save`     *)
(* command carrying the current list; afterwards a timer comes to be       *)
(* pending only by a new edit.                                             *)
ManualSaveCancelsTimer ==
    [][ /\ ManualSave
            => (NoTimer' /\ (ipc = "ok" => sent' = SaveCommand(servers')))
        /\ (pendingTimeouts = 0 /\ pendingTimeouts' > 0) => lastOp' = "edit"
      ]_vars

\* a manual save made while dirty: the save is posted and no timer is left
ManualSaveSeen ==
    /\ lastOp = "save-config"
    /\ unsavedChanges
    /\ NoTimer
    /\ sent = SaveCommand(servers)

(* C5: Clean transition.  Whenever the dirty flag is clear no debounce     *)
(* timer is pending; while a save has been posted and no edit has been     *)
(* made since, no timer is pending either, so that a `Saved OK` or STATE:  *)
(* confirmation arriving then leaves the dirty flag clear.                 *)
CleanHasNoTimer ==
    /\ ~unsavedChanges => NoTimer
    /\ savePhase = "sent" => NoTimer
    /\ (/\ savePhase = "sent"
        /\ \/ lastMsg = "Saved OK"
           \/ \E t \in SnapshotArrayTexts : lastMsg = "STATE:" \o t)
          => ~unsavedChanges

\* the confirmation of a save arrived with no edit in between: Clean
CleanAfterConfirmation ==
    /\ savePhase = "sent"
    /\ StartsWith(lastMsg, "STATE:")
    /\ shown = Notice("Saved", "success")
    /\ ~unsavedChanges
    /\ NoTimer

(* C6: RUNNING resync.  As stated: on RUNNING:<json-array-of-ports> every  *)
(* instance's running flag becomes true exactly when its port is an        *)
(* element of the array.                                                   *)
RunningResync ==
    [][ \A p \in PortArrayTexts :
          IpcStatus("RUNNING:" \o p)
            => /\ Len(servers') = Len(servers)
               /\ \A k \in 1..Len(servers) :
                     servers'[k].running = InPorts(ParseIntArray(p).value, servers[k].port)
      ]_vars

(* C7: Snapshot replacement.  A STATE: or REFRESH: message whose payload   *)
(* is a JSON array of instances makes the instance list equal to the       *)
(* decoded array, clears the dirty flag and leaves no debounce timer       *)
(* pending.                                                                *)
SnapshotReplacesList ==
    [][ \A t \in SnapshotArrayTexts : \A prefix \in SnapshotPrefixes :
          IpcStatus(prefix \o t)
            => (servers' = HostByText[t] /\ ~unsavedChanges' /\ NoTimer')
      ]_vars

\* a snapshot arrived over a list that differed from it, dirty, with a timer pending
SnapshotOverDirtyList ==
    /\ savePhase = "edited"
    /\ StartsWith(lastMsg, "REFRESH:")
    /\ shown = Notice("Maps loaded", "success")
    /\ Len(servers) = 2
    /\ servers[1].configs[1].session_name # form.session_name
    /\ ~unsavedChanges
    /\ NoTimer

(* C8: Malformed replies.  A STATE: or REFRESH: message whose payload is   *)
(* not JSON leaves the instance list, the dirty flag and the debounce      *)
(* timer as they were and shows an error notice; a PLAYER_LIST: message    *)
(* whose payload is not JSON leaves the roster empty; no handler lets an   *)
(* exception escape.                                                       *)
MalformedRepliesDegrade ==
    [][ /\ \A p \in MalformedPayloads :
            /\ IpcStatus("STATE:" \o p)
                  => /\ servers' = servers
                     /\ unsavedChanges' = unsavedChanges
                     /\ autoSaveTimeout' = autoSaveTimeout
                     /\ pendingTimeouts' = pendingTimeouts
                     /\ shown' = Notice("Save failed.", "error")
            /\ IpcStatus("REFRESH:" \o p)
                  => /\ servers' = servers
                     /\ unsavedChanges' = unsavedChanges
                     /\ autoSaveTimeout' = autoSaveTimeout
                     /\ pendingTimeouts' = pendingTimeouts
                     /\ shown' = Notice("Refresh failed.", "error")
            /\ IpcStatus("PLAYER_LIST:" \o p) => currentPlayerList' = <<>>
        /\ ~threw'
      ]_vars

\* after a malformed roster, a malformed STATE: arrived while an edit waited to be saved
MalformedRepliesSeen ==
    /\ lastMsg = "STATE:[oops"
    /\ shown = Notice("Save failed.", "error")
    /\ lastPlayerListJson \in MalformedPayloads
    /\ currentPlayerList = <<>>
    /\ unsavedChanges
    /\ OutstandingTimer
    /\ ~threw

(* C9: Log delivery.  As stated: every LOG_CONTENT: message puts the text  *)
(* after the prefix, unchanged, in the log viewer and shows no notice.     *)
LogDeliveredVerbatim ==
    [][ \A t \in LogTexts :
          IpcStatus("LOG_CONTENT:" \o t) => (logContent' = t /\ shown' = <<>>)
      ]_vars

(* C10: Host-reported failure.  As stated: every message that contains     *)
(* `Error` or `failed` and matches no prefix row is shown as it is, and if *)
(* a start is in flight the status becomes error and the starting flag is  *)
(* cleared; `Save failed: <reason>` included.                              *)
HostFailureSurfacedRaw ==
    [][ \A m \in FailureMessages :
          IpcStatus(m)
            => /\ shown' = Notice(m, "error")
               /\ serverStarting => (serverError' /\ ~serverStarting')
      ]_vars

----------------------------------------------------------------------------
\* PLAYER_LIST: payloads that are JSON arrays, and the roster each denotes
RosterArrayTexts == {"[]", PlayersText}

RosterOf(t) == IF t = PlayersText THEN Players ELSE <<>>

(* C11: Roster de-duplication.  A PLAYER_LIST: message whose payload       *)
(* equals the payload of the PLAYER_LIST: message before it changes no     *)
(* variable of the page, requests no render, posts and shows nothing; a     *)
(* payload that differs becomes the stored payload and, when it is a JSON   *)
(* array, the roster becomes the decoded array.                            *)
RosterDeduplicated ==
    [][ \A p \in PlayerPayloads :
          IpcStatus("PLAYER_LIST:" \o p)
            => IF p = lastPlayerListJson
               THEN UNCHANGED programVars /\ sent' = <<>> /\ shown' = <<>>
               ELSE /\ lastPlayerListJson' = p
                    /\ p \in RosterArrayTexts => currentPlayerList' = RosterOf(p)
      ]_vars

\* the roster's payload was delivered again after the render of its first delivery
RosterRepeatSeen ==
    /\ lastMsg = "PLAYER_LIST:" \o PlayersText
    /\ lastPlayerListJson = PlayersText
    /\ currentPlayerList = Players
    /\ ~renderRequested

RunningCommand(list) ==
    << [ action |-> "get_running", servers |-> list, server_index |-> -1,
         server_manager |-> <<>>, browse_which |-> "" ] >>

(* C12: Started OK / Stopped OK.  On `Started OK` the running flag of the  *)
(* selected server becomes true, on `Stopped OK` false; the starting flag  *)
(* is cleared, the running flag of every other server is as before, and,   *)
(* with the transport available, exactly one get_running command is        *)
(* posted.                                                                 *)
StartedStoppedOk ==
    [][ \A m \in {"Started OK", "Stopped OK"} :
          IpcStatus(m)
            => /\ ~serverStarting'
               /\ Len(servers') = Len(servers)
               /\ \A k \in 1..Len(servers) :
                     servers'[k].running =
                        IF k = selectedServerIndex + 1 THEN m = "Started OK"
                        ELSE servers[k].running
               /\ ipc = "ok" => sent' = RunningCommand(servers')
      ]_vars

\* the second of two running servers was stopped: the first still runs
StoppedOneOfTwo ==
    /\ lastMsg = "Stopped OK"
    /\ Len(servers) = 2
    /\ selectedServerIndex = 1
    /\ servers[1].running
    /\ ~servers[2].running
    /\ sent = RunningCommand(servers)

(* C13: Start all / stop all.  With the transport available and no server  *)
(* running, the start-all click posts exactly one start_all command that    *)
(* carries the whole list; `All servers started` makes every running flag   *)
(* true and `All servers stopped` makes every one false.                    *)
StartAllStopAll ==
    [][ /\ (StartAll /\ ipc = "ok" /\ countRunning(Cur) = 0)
            => /\ Len(sent') = 1
               /\ sent'[1].action = "start_all"
               /\ sent'[1].servers = servers'
               /\ Len(servers') = Len(servers)
        /\ IpcStatus("All servers started")
            => /\ Len(servers') = Len(servers)
               /\ \A k \in 1..Len(servers') : servers'[k].running
        /\ IpcStatus("All servers stopped")
            => /\ Len(servers') = Len(servers)
               /\ \A k \in 1..Len(servers') : ~servers'[k].running
      ]_vars

\* two servers, both made running by `All servers started`
AllStartedSeen ==
    /\ lastMsg = "All servers started"
    /\ Len(servers) = 2
    /\ servers[1].running
    /\ servers[2].running

(* C14: Unrecognized messages.  A message that no branch of the dispatcher *)
(* takes changes no variable of the page, posts nothing and shows nothing. *)
UnrecognizedIgnored ==
    [][ \A m \in UnrecognizedMessages :
          IpcStatus(m) => (UNCHANGED programVars /\ sent' = <<>> /\ shown' = <<>>)
      ]_vars

\* an unrecognized message arrived while a start was in flight and a server ran
UnrecognizedSeen ==
    /\ lastMsg = "VERSION:2"
    /\ serverStarting
    /\ countRunning(Cur) > 0
    /\ sent = <<>>
    /\ shown = <<>>

(* C15: RUNNING idempotence.  A RUNNING: message delivered right after the *)
(* same RUNNING: message leaves every running flag as the first delivery   *)
(* left it.                                                                *)
RunningIdempotent ==
    [][ \A p \in PortPayloads :
          (lastMsg = "RUNNING:" \o p /\ IpcStatus("RUNNING:" \o p))
            => /\ Len(servers') = Len(servers)
               /\ \A k \in 1..Len(servers) : servers'[k].running = servers[k].running
      ]_vars

\* RUNNING:[22000] delivered to two servers of which the second runs
RunningDelivered ==
    /\ lastMsg = "RUNNING:[22000]"
    /\ Len(servers) = 2
    /\ servers[2].running
    /\ ~serverStarting

(* C16: Single poller.  In every reachable state at most one player-poll   *)
(* interval is active: the interval handle is set exactly when one         *)
(* interval is active, and exactly when lastPlayerPollRunning is set.      *)
SinglePoller ==
    /\ activeIntervals <= 1
    /\ playerPollTimer = (activeIntervals = 1)
    /\ lastPlayerPollRunning = playerPollTimer

\* the selection moved between two running servers: still one interval
PollerKeptAcrossSelection ==
    /\ lastOp = "select"
    /\ Len(servers) = 2
    /\ servers[1].running
    /\ servers[2].running
    /\ activeIntervals = 1

(* C17: Poller follows the running flag.  A step that sends a get_players  *)
(* command carries the selected index and leaves the selected server       *)
(* running: no get_players command is sent while the selected server's     *)
(* running flag is false.                                                  *)
PollerFollowsRunningFlag ==
    [][\A k \in 1..Len(sent') :
          sent'[k].action = "get_players"
          => /\ sent'[k].server_index = selectedServerIndex'
             /\ selectedServerIndex' + 1 \in 1..Len(servers')
             /\ servers'[selectedServerIndex' + 1].running]_vars

(* C18: Envelope shape.  Every command a handler has sent has an action    *)
(* from the closed set and carries the current server list; save carries   *)
(* the manager settings, start / stop / get_players carry the selected     *)
(* index, and browse_hd2_dir carries the variant that is browsed.          *)
EnvelopeShape ==
    \A k \in 1..Len(sent) :
        /\ sent[k].action \in
              {"save", "start", "stop", "start_all", "stop_all", "get_running",
               "get_players", "get_log_content", "open_log_file",
               "refresh_mpmaplist", "browse_mpmaplist", "browse_hd2_dir"}
        /\ sent[k].servers = servers
        /\ sent[k].action = "save" => sent[k].server_manager = << server_manager >>
        /\ sent[k].action \in {"start", "stop", "get_players"}
              => sent[k].server_index = selectedServerIndex
        /\ sent[k].action = "browse_hd2_dir"
              => sent[k].browse_which \in {"hd2ds", "sabre"}

\* the handlers that call setUnsaved(true) because the user changed something
EditOps == {"edit", "profile-new", "profile-delete", "server-add", "server-delete"}

(* C19: Transport unavailable.  A handler that ends with the send          *)
(* primitive missing has sent nothing.  When the debounce timer fires with *)
(* the primitive missing the save is reported as not available and no      *)
(* timer is left, and while the primitive is missing a timer is started    *)
(* only by an edit: the save is attempted again only after a new edit or a *)
(* manual save.                                                            *)
TransportUnavailable ==
    [][ipc' = "missing"
         => /\ sent' = <<>>
            /\ (ipc = "missing" /\ lastOp' = "autosave")
                  => /\ ~autoSaveTimeout'
                     /\ pendingTimeouts' = 0
                     /\ shown' = Notice("Save not available.", "error")
            /\ (ipc = "missing" /\ shown' = Notice("Save not available.", "error"))
                  => lastOp' \in {"autosave", "save-config"}
            /\ (ipc = "missing" /\ pendingTimeouts = 0 /\ pendingTimeouts' > 0)
                  => lastOp' \in EditOps]_vars

\* the debounce timer fired with the primitive missing: dirty, no timer, nothing sent
AutoSaveWithoutTransport ==
    /\ lastOp = "autosave"
    /\ ipc = "missing"
    /\ unsavedChanges
    /\ NoTimer
    /\ sent = <<>>
    /\ shown = Notice("Save not available.", "error")

\* every server has a profile, and there is a server
NothingEmpty(list) ==
    /\ Len(list) >= 1
    /\ \A k \in 1..Len(list) : Len(list[k].configs) >= 1

(* C20: Last-item protection.  A profile-delete click on a server with one *)
(* profile and a server-delete click with one server change nothing (the   *)
(* list, the selected indices, the dirty flag and the debounce timer       *)
(* included) and send nothing; a delete never leaves a server without      *)
(* profiles or the list without servers.                                   *)
LastItemProtected ==
    [][/\ (/\ lastOp' = "profile-delete"
           /\ selectedServerIndex + 1 \in 1..Len(servers)
           /\ Len(servers[selectedServerIndex + 1].configs) = 1)
             => /\ UNCHANGED programVars
                /\ sent' = <<>>
       /\ (lastOp' = "server-delete" /\ Len(servers) = 1)
             => /\ UNCHANGED programVars
                /\ sent' = <<>>
       /\ (lastOp' \in {"profile-delete", "server-delete"} /\ NothingEmpty(servers))
             => NothingEmpty(servers')]_vars

\* a server-delete click on the only server of an untouched panel
LastServerKept ==
    /\ lastOp = "server-delete"
    /\ Len(servers) = 1
    /\ Len(servers[1].configs) = 1
    /\ ~unsavedChanges
    /\ NoTimer

(* C21: Name invariant.  In every reachable state each server's name is    *)
(* the name of the profile that current_config names.                      *)
NameFollowsCurrentConfig ==
    \A k \in 1..Len(servers) :
        \A j \in 1..Len(servers[k].configs) :
            servers[k].configs[j].name = servers[k].current_config
               => servers[k].name = servers[k].configs[j].name

\* sv has no profile, or a profile that current_config names
NamesAProfile(sv) ==
    \/ Len(sv.configs) = 0
    \/ \E j \in 1..Len(sv.configs) : sv.configs[j].name = sv.current_config

PortsValidAndDistinct ==
    /\ \A k \in 1..Len(servers) : servers[k].port \in 1..65535
    /\ \A k, j \in 1..Len(servers) : k # j => servers[k].port # servers[j].port

\* the port typed is the port of a server other than the selected one
PortOfAnother(portText) ==
    \E k \in 1..Len(servers) :
        /\ k # selectedServerIndex + 1
        /\ parseInt(portText) # NaN
        /\ servers[k].port = parseInt(portText)

(* C24: Duplicate-port rejection.  An edit submitted with the port of      *)
(* another server changes neither the server list nor the dirty flag nor   *)
(* the autosave timer, sends nothing and shows the notice of the rejection.*)
DuplicatePortRejected ==
    [][\A portText \in PortTexts, hd2ds \in Hd2dsPaths, sabre \in SabrePaths :
          (lastOp' = "edit-server" /\ PortOfAnother(portText)
              /\ EditServerStep(portText, hd2ds, sabre))
             => /\ UNCHANGED <<servers, unsavedChanges, autoSaveTimeout, pendingTimeouts>>
                /\ sent' = << >>
                /\ shown' = << [text |-> "Another server already uses that port.",
                                kind |-> "error"] >>]_vars

\* the second server's edit was rejected for the first server's port after
\* the autosave timer had fired: no timer is armed
DuplicatePortNoticeShown ==
    /\ lastOp = "edit-server"
    /\ Len(servers) = 2
    /\ selectedServerIndex = 1
    /\ servers[1].port = BasePort
    /\ servers[2].port = BasePort + 1
    /\ ~autoSaveTimeout
    /\ pendingTimeouts = 0
    /\ Len(shown) = 1
    /\ shown[1].text = "Another server already uses that port."

(* C25: Numeric clamping.  Every numeric field of every profile is inside  *)
(* its declared range (max clients 1-32, round count 1-20, spawn           *)
(* protection 0-30, warmup 0-60, inverse damage 0-200, respawn number      *)
(* 0-99, max inactivity and max ping at least 0, voice chat 0-6), and the  *)
(* manager intervals are inside 0-365, whatever was written.               *)
NumericFieldsInRange ==
    /\ \A k \in 1..Len(servers) :
          \A j \in 1..Len(servers[k].configs) :
              LET c == servers[k].configs[j]
              IN  /\ c.max_clients \in 1..32
                  /\ c.round_count \in 1..20
                  /\ c.spawn_protection \in 0..30
                  /\ c.warmup \in 0..60
                  /\ c.inverse_damage \in 0..200
                  /\ c.respawn_number \in 0..99
                  /\ c.max_inactivity >= 0
                  /\ c.max_ping >= 0
                  /\ c.voice_chat \in 0..6
    /\ server_manager.restart_interval_days \in 0..365
    /\ server_manager.log_rotation_days \in 0..365

(* C26: Round count.  After every input the stored round_count is in       *)
(* 1..20: an integer above 20 ("99", "999") stores 20, an integer below 1  *)
(* ("0", "-5") stores 1, non-numeric text ("abc") stores 1, and an integer *)
(* in the range is stored as it is.                                        *)
RoundCountClamped ==
    [][lastOp' = "field-input"
          => LET text == form'.round_count
                 stored == servers'[selectedServerIndex' + 1]
                               .configs[selectedConfigIndex' + 1].round_count
             IN  /\ stored \in 1..20
                 /\ text \in {"99", "999"} => stored = 20
                 /\ text \in {"0", "-5"} => stored = 1
                 /\ text = "abc" => stored = 1
                 /\ text = "7" => stored = 7]_vars

\* "99" was typed into the round-count field and 20 is stored
RoundCountCapped ==
    /\ lastOp = "field-input"
    /\ form.round_count = "99"
    /\ servers[selectedServerIndex + 1].configs[selectedConfigIndex + 1].round_count = 20

\* the maps of profile j of server k in list
MapsOf(list, k, j) == list[k].configs[j].maps

(* C27: Style change clears rotation.  Right after the style-change        *)
(* handler the selected profile's rotation is empty, whatever it and the   *)
(* two styles were, and the rotation of every other profile is as before.  *)
StyleChangeClearsRotation ==
    [][lastOp' = "style-change"
          => /\ MapsOf(servers', selectedServerIndex + 1, selectedConfigIndex + 1) = << >>
             /\ selectedServerIndex' = selectedServerIndex
             /\ selectedConfigIndex' = selectedConfigIndex
             /\ \A k \in 1..Len(servers) :
                   /\ Len(servers'[k].configs) = Len(servers[k].configs)
                   /\ \A j \in 1..Len(servers[k].configs) :
                         (k # selectedServerIndex + 1 \/ j # selectedConfigIndex + 1)
                            => MapsOf(servers', k, j) = MapsOf(servers, k, j)]_vars

\* the second profile's style was changed to Objectives: its rotation is
\* empty and the first profile keeps a rotation of two maps
RotationCleared ==
    /\ lastOp = "style-change"
    /\ selectedConfigIndex = 1
    /\ servers[1].configs[2].style = "Objectives"
    /\ MapsOf(servers, 1, 2) = << >>
    /\ Len(MapsOf(servers, 1, 1)) = 2

(* C28: Rotation add.  The list offered for adding holds exactly the names *)
(* of the pool of the profile's style that the rotation does not have; the *)
(* add handler with a valid selection appends the selected name of that    *)
(* list, a name the rotation did not have, and nothing else; with no valid *)
(* selection it changes nothing.                                           *)
RotationAddFromOffered ==
    [][lastOp' = "map-add"
          => LET offered == getAvailableMapsForRotation(Cur)
                 pool == servers[selectedServerIndex + 1].available_maps_by_style
                 style == servers[selectedServerIndex + 1]
                             .configs[selectedConfigIndex + 1].style
                 ofStyle == IF style = "Deathmatch" THEN pool["Occupation"] ELSE pool[style]
                 maps == MapsOf(servers, selectedServerIndex + 1, selectedConfigIndex + 1)
                 after == MapsOf(servers', selectedServerIndex + 1, selectedConfigIndex + 1)
             IN  /\ Range(offered) = Range(ofStyle) \ Range(maps)
                 /\ Len(offered) = Cardinality(Range(offered))
                 /\ IF selectedAvailableMapIndex \in 0..(Len(offered) - 1)
                    THEN /\ after = Append(maps, offered[selectedAvailableMapIndex + 1])
                         /\ after[Len(after)] \notin Range(maps)
                         /\ servers' = [servers EXCEPT
                                ![selectedServerIndex + 1]
                                    .configs[selectedConfigIndex + 1].maps = after]
                    ELSE UNCHANGED <<servers, unsavedChanges, pendingTimeouts>>]_vars

\* the second map of the Objectives pool was added behind the first
MapAdded ==
    /\ lastOp = "map-add"
    /\ selectedConfigIndex = 0
    /\ MapsOf(servers, 1, 1) = << "Alps3", "Burgundy1" >>
    /\ selectedAvailableMapIndex = -1
    /\ unsavedChanges

(* C29: Bulk random add.  With requested count n (1 when the text is not a *)
(* number or is below 1) and offered list A, random add appends exactly    *)
(* min(n, |A|) entries behind the unchanged rotation, all of them names of *)
(* A, no two the same and none already in the rotation; with A empty it    *)
(* changes nothing.                                                        *)
RandomAddSamples ==
    [][lastOp' = "map-add-random"
          => LET text == form'.map_add_random_count
                 n == CASE text = "2" -> 2 [] text = "5" -> 5 [] OTHER -> 1
                 A == getAvailableMapsForRotation(Cur)
                 maps == MapsOf(servers, selectedServerIndex + 1, selectedConfigIndex + 1)
                 after == MapsOf(servers', selectedServerIndex + 1, selectedConfigIndex + 1)
                 added == SubSeq(after, Len(maps) + 1, Len(after))
             IN  /\ Len(after) = Len(maps) + Min(n, Len(A))
                 /\ SubSeq(after, 1, Len(maps)) = maps
                 /\ Range(added) \subseteq Range(A)
                 /\ Range(added) \cap Range(maps) = {}
                 /\ Cardinality(Range(added)) = Len(added)
                 /\ Len(A) = 0 => UNCHANGED <<servers, unsavedChanges, pendingTimeouts>>]_vars

\* five maps were requested with two on offer: both were appended behind the
\* map the rotation had
RandomAddTookAll ==
    /\ lastOp = "map-add-random"
    /\ form.map_add_random_count = "5"
    /\ selectedConfigIndex = 1
    /\ servers[1].configs[2].style = "Objectives"
    /\ Len(MapsOf(servers, 1, 2)) = 2
    /\ Range(MapsOf(servers, 1, 2)) = {"Alps3", "Burgundy1"}

\* the ban list of profile j of server k in list
BansOf(list, k, j) == list[k].configs[j].ban_list

\* the servers with entry appended to the selected profile's ban list
WithBan(entry) ==
    [servers EXCEPT ![selectedServerIndex + 1].configs[selectedConfigIndex + 1].ban_list =
        Append(@, entry)]

\* text cut to the declared cap
Capped(text) == SubSeq(text, 1, Min(Len(text), BAN_REASON_MAX))

(* C30: Ban add.  A ban add with an empty or whitespace-only IP changes    *)
(* nothing; otherwise one entry is appended to the selected profile's ban  *)
(* list: the IP alone when the comment typed is empty, and the IP, `:>`    *)
(* and the comment typed, cut to the cap, otherwise.                       *)
BanAddStoresComment ==
    [][\A ipText \in IpTexts, commentText \in CommentTexts :
          (lastOp' = "ban-add" /\ BanAddStep(ipText, commentText))
             => IF Trim(ipText) = ""
                THEN UNCHANGED <<servers, unsavedChanges, pendingTimeouts>>
                ELSE servers' = WithBan(IF commentText = "" THEN Trim(ipText)
                                        ELSE Trim(ipText) \o ":>" \o Capped(commentText))]_vars

(* C30, amended: as above, with the comment taken without the whitespace   *)
(* around it: the IP alone when the comment is empty or whitespace only,   *)
(* and otherwise the IP, `:>` and the trimmed comment cut to the cap.      *)
BanAddStoresTrimmedComment ==
    [][\A ipText \in IpTexts, commentText \in CommentTexts :
          (lastOp' = "ban-add" /\ BanAddStep(ipText, commentText))
             => IF Trim(ipText) = ""
                THEN UNCHANGED <<servers, unsavedChanges, pendingTimeouts>>
                ELSE servers' = WithBan(IF Trim(commentText) = "" THEN Trim(ipText)
                                        ELSE Trim(ipText) \o ":>"
                                                \o Capped(Trim(commentText)))]_vars

\* a comment of 30 characters is stored cut to 21, behind an entry without
\* a comment
LongCommentCut ==
    /\ lastOp = "ban-add"
    /\ selectedConfigIndex = 1
    /\ BansOf(servers, 1, 2) = << "10.0.0.9", "10.0.0.9:>abcdefghijklmnopqrstu" >>
    /\ BansOf(servers, 1, 1) = << >>
    /\ selectedBanIndex = 1
    /\ form.ban_list_add_ip = ""

----------------------------------------------------------------------------
WhitelistOf(list, k, j) == list[k].configs[j].whitelist

\* the comment of an `ip[:>comment]` entry whose IP is ip
CommentOf(entry, ip) == SubSeq(entry, Len(ip) + 3, Len(entry))

(* C31: Whitelist comment cap.  Every entry that the whitelist add appends *)
(* to a whitelist has a comment no longer than the cap of ban comments     *)
(* (BAN_REASON_MAX).                                                       *)
WhitelistAddCapsComment ==
    [][\A ipText \in IpTexts, commentText \in EntryComments :
          ( /\ lastOp' = "whitelist-add"
            /\ Trim(ipText) # ""
            /\ WhitelistAddStep(ipText, commentText) )
             => LET list == WhitelistOf(servers', selectedServerIndex + 1,
                                        selectedConfigIndex + 1)
                IN  /\ Len(list) = Len(WhitelistOf(servers, selectedServerIndex + 1,
                                                   selectedConfigIndex + 1)) + 1
                    /\ Len(CommentOf(list[Len(list)], Trim(ipText))) <= BAN_REASON_MAX]_vars

\* idx is "none" or an index of list
NoneOrIndexOf(idx, list) == idx = -1 \/ idx \in 0..(Len(list) - 1)

\* the servers with the entry at idx taken out of the selected profile's ban list
WithoutBan(idx) ==
    [servers EXCEPT ![selectedServerIndex + 1].configs[selectedConfigIndex + 1].ban_list =
        RemoveAt(@, idx)]

\* the same for its whitelist
WithoutWhitelisted(idx) ==
    [servers EXCEPT ![selectedServerIndex + 1].configs[selectedConfigIndex + 1].whitelist =
        RemoveAt(@, idx)]

\* a remove step on the ban list: the selected entry goes, or nothing changes
BanRemoveDeletesSelected ==
    LET list == BansOf(servers, selectedServerIndex + 1, selectedConfigIndex + 1)
    IN  IF selectedBanIndex \in 0..(Len(list) - 1)
        THEN /\ servers' = WithoutBan(selectedBanIndex)
             /\ Len(list) = 1 => selectedBanIndex' = -1
        ELSE UNCHANGED programVars

\* a remove step on the whitelist: the selected entry goes, or nothing changes
WhitelistRemoveDeletesSelected ==
    LET list == WhitelistOf(servers, selectedServerIndex + 1, selectedConfigIndex + 1)
    IN  IF selectedWhitelistIndex \in 0..(Len(list) - 1)
        THEN /\ servers' = WithoutWhitelisted(selectedWhitelistIndex)
             /\ Len(list) = 1 => selectedWhitelistIndex' = -1
        ELSE UNCHANGED programVars

(* C32: Selection index of ban list and whitelist.  After every add or     *)
(* remove on a ban list or whitelist the selection index of that list is   *)
(* -1 or an index of the list; a remove deletes exactly the entry at the   *)
(* selected index, changes nothing when the selection is none or out of    *)
(* range, and leaves the selection at none when the list becomes empty.    *)
SelectionIndexAfterEntryOps ==
    [][/\ lastOp' \in {"ban-add", "ban-remove"}
          => NoneOrIndexOf(selectedBanIndex',
                 BansOf(servers', selectedServerIndex + 1, selectedConfigIndex + 1))
       /\ lastOp' \in {"whitelist-add", "whitelist-remove"}
          => NoneOrIndexOf(selectedWhitelistIndex',
                 WhitelistOf(servers', selectedServerIndex + 1, selectedConfigIndex + 1))
       /\ lastOp' = "ban-remove" => BanRemoveDeletesSelected
       /\ lastOp' = "whitelist-remove" => WhitelistRemoveDeletesSelected]_vars

(* C32, amended: as above, with the selection index required to be -1 or   *)
(* an index of the list after every add or remove that changes the list    *)
(* (a remove that changes nothing leaves the index as it was).             *)
SelectionIndexAfterEntryChange ==
    [][/\ (lastOp' \in {"ban-add", "ban-remove"} /\ servers' # servers)
          => NoneOrIndexOf(selectedBanIndex',
                 BansOf(servers', selectedServerIndex + 1, selectedConfigIndex + 1))
       /\ (lastOp' \in {"whitelist-add", "whitelist-remove"} /\ servers' # servers)
          => NoneOrIndexOf(selectedWhitelistIndex',
                 WhitelistOf(servers', selectedServerIndex + 1, selectedConfigIndex + 1))
       /\ lastOp' = "ban-remove" => BanRemoveDeletesSelected
       /\ lastOp' = "whitelist-remove" => WhitelistRemoveDeletesSelected]_vars

\* the first of two different ban entries was removed, and the last of the
\* whitelist's entries before it
FirstBanRemoved ==
    /\ lastOp = "ban-remove"
    /\ BansOf(servers, 1, 1) = << "10.0.0.9:>abcdefghijklmnopqrstu" >>
    /\ selectedBanIndex = 0
    /\ WhitelistOf(servers, 1, 1) = << >>
    /\ selectedWhitelistIndex = -1
    /\ unsavedChanges

----------------------------------------------------------------------------
(* C33: Clean means confirmed.  Whenever the dirty flag is clear (no edit  *)
(* has happened since it was cleared), the host has answered the most      *)
(* recent `save` command posted: a `Saved OK` that answers an earlier save *)
(* does not clear the flag while a later save is unanswered.               *)
CleanMeansConfirmed == ~unsavedChanges => unconfirmedSaves = 0

(* C34: No stuck-dirty state.  In every reachable state where the dirty    *)
(* flag is set, a debounce timer is pending or a `save` command has been   *)
(* posted whose reply has not arrived yet.                                 *)
DirtyIsOnItsWay == unsavedChanges => (pendingTimeouts > 0 \/ unconfirmedSaves > 0)

(* C35: Selection validity.  In every reachable state the instance list is *)
(* non-empty, the selected instance index is an index of it and the        *)
(* selected profile index is an index of the selected instance's profiles. *)
SelectionValid ==
    /\ Len(servers) > 0
    /\ selectedServerIndex \in 0..(Len(servers) - 1)
    /\ selectedConfigIndex \in 0..(Len(servers[selectedServerIndex + 1].configs) - 1)

----------------------------------------------------------------------------
(* C36: Start attribution.  When the host answers `Started OK` (`Stopped   *)
(* OK`) to a start (stop) command posted with server_index i, the running  *)
(* flag of instance i becomes TRUE (FALSE) and the running flag of every   *)
(* other instance is unchanged, whichever instance is selected by then.    *)
ReplyAttributedToTarget ==
    [][lastOp' = "command-reply"
          => /\ Len(servers') = Len(servers)
             /\ \A k \in 1..Len(servers) :
                   servers'[k].running =
                       IF k = pendingCommand.index + 1
                       THEN pendingCommand.action = "start"
                       ELSE servers[k].running]_vars

----------------------------------------------------------------------------
(* C37: In-range writes are preserved.  After every input into a numeric   *)
(* field of the profile form, each field whose input is an integer inside  *)
(* the field's range, the lower bound included, stores that integer.       *)
InRangeWritesPreserved ==
    [][lastOp' = "field-input"
          => LET c == servers'[selectedServerIndex + 1].configs[selectedConfigIndex + 1]
                 Written(field, lo, hi) ==
                     LET v == parseInt(form'[field])
                     IN  (v # NaN /\ v >= lo /\ v <= hi) => c[field] = v
                 WrittenFrom(field, lo) ==
                     LET v == parseInt(form'[field])
                     IN  (v # NaN /\ v >= lo) => c[field] = v
             IN  /\ Written("max_clients", 1, 32)
                 /\ Written("round_count", 1, 20)
                 /\ Written("spawn_protection", 0, 30)
                 /\ Written("warmup", 0, 60)
                 /\ Written("inverse_damage", 0, 200)
                 /\ Written("respawn_number", 0, 99)
                 /\ WrittenFrom("max_inactivity", 0)
                 /\ WrittenFrom("max_ping", 0)
                 /\ Written("voice_chat", 0, 6)]_vars

(* C38: Status flags are exclusive.  In every reachable state the starting *)
(* flag and the error flag are not both set.                               *)
StatusFlagsExclusive == ~(serverStarting /\ serverError)

\* a start in flight was answered with a failure: the error flag alone is set
StartFailureFlagged ==
    /\ lastOp = "ipc"
    /\ lastMsg = "Start failed"
    /\ serverError
    /\ ~serverStarting
    /\ renderRequested

----------------------------------------------------------------------------
(* C39: Reveal flags do not leak across rosters.  When a PLAYER_LIST:      *)
(* message replaces the roster with a different payload, no row of the new *)
(* roster is revealed until the user clicks it: a flag set for row i of    *)
(* the previous roster does not reveal row i of the new one.               *)
RevealFlagsDoNotLeak ==
    [][\A p \in RevealPayloads :
          (IpcStatus("PLAYER_LIST:" \o p) /\ p # lastPlayerListJson)
             => \A i \in 0..(Len(currentPlayerList') - 1) : i \notin playerListRevealed']_vars

\* an entry of a ban list that names ip, with or without a comment
EntryFor(entry, ip) == entry = ip \/ StartsWith(entry, ip \o ":>")

(* C40: Ban-from-roster is idempotent.  A Ban click on a roster row whose  *)
(* IP already has an entry in the selected profile's ban list adds no      *)
(* entry and does not set the dirty flag.                                  *)
PlayerBanIdempotent ==
    [][\A i \in 1..Len(currentPlayerList) :
          LET ip == currentPlayerList[i].ip
              list == BansOf(servers, selectedServerIndex + 1, selectedConfigIndex + 1)
          IN  ( /\ lastOp' = "player-ban"
                /\ \E k \in 1..Len(list) : EntryFor(list[k], ip)
                /\ PlayerBanStep(ip) )
                 => UNCHANGED <<servers, unsavedChanges, pendingTimeouts>>]_vars

====
